---- MODULE Spec2Model ----
(***************************************************************************)
(* State-machine model of discoflare-chat.                                 *)
(*                                                                         *)
(*   main worker  (workers/main-worker/src/index.ts, discord.ts,           *)
(*                 turnstile.ts): the fetch router, the ChatSession        *)
(*                 Durable Object class and its Discord REST client;       *)
(*   bot relay    (unnamed/part_003): the DiscordGateway Durable Object.   *)
(*                                                                         *)
(* Every `await` on an external fetch is a suspension point: a handler is  *)
(* split there into one action per continuation.  Storage operations of a  *)
(* Durable Object do not let other events in, so they stay inside the      *)
(* action that issues them.  Time is Date.now() in milliseconds.           *)
(***************************************************************************)
EXTENDS Integers, Sequences, FiniteSets, TLC

(***************************************************************************)
(* Program constants                                                       *)
(***************************************************************************)
SESSION_TIMEOUT == 60 * 60 * 1000
MAX_MESSAGE_LENGTH == 2000
RATE_LIMIT == 10
RATE_WINDOW == 60 * 1000
HISTORY_CAP == 50
MAX_THREAD_DAYS == 90

(***************************************************************************)
(* Bounds of the model                                                     *)
(***************************************************************************)
MaxConns == 2
MaxInits == 3
MaxPushes == 2

(***************************************************************************)
(* Strings whose characters the code inspects (names, e-mail addresses,    *)
(* thread titles) are tuples of one-character strings.                     *)
(***************************************************************************)
NameAnn == <<"A">>
NameBob == <<"B">>
EmailAnn == <<"a", "@", "x", ".", "y">>
EmailBob == <<"b", "@", "x", ".", "y">>
NoSid == ""

IsWs(c) == c \in {" ", "\t", "\n"}

\* a test that asks for the @ and for no blanks, but for no dot after the @
isValidEmailNoDot(email) ==
    \E i \in 1..Len(email) :
        /\ 1 < i /\ i < Len(email)
        /\ email[i] = "@"
        /\ \A k \in (1..Len(email)) \ {i} : ~IsWs(email[k]) /\ email[k] # "@"

isValidEmail(email) ==
    \E i \in 1..Len(email), j \in 1..Len(email) :
        /\ 1 < i /\ i + 1 < j /\ j < Len(email)
        /\ email[i] = "@"
        /\ email[j] = "."
        /\ \A k \in (1..Len(email)) \ {i} : ~IsWs(email[k]) /\ email[k] # "@"

Includes(hay, needle) ==
    \E i \in 0..(Len(hay) - Len(needle)) :
        SubSeq(hay, i + 1, i + Len(needle)) = needle

ThreadName(name, email) ==
    <<"S", "u", "p", "p", "o", "r", "t", ":", " ">> \o name \o <<" ", "-", " ">> \o email

(***************************************************************************)
(* Durable Object instances of the CHAT_SESSION namespace: the two named   *)
(* coordinators and one instance per crypto.randomUUID() name.             *)
(***************************************************************************)
MessageCoordinator == "message-coordinator"
RelayCoordinator == "relay-coordinator"
\* one instance name for every connection
UuidNameShared(i) == "uuid-1"

UuidName(i) == "uuid-" \o ToString(i)

SidName(i) == "sid-" \o ToString(i)

WS == 1..MaxConns
DOs == {MessageCoordinator, RelayCoordinator} \cup {UuidName(i) : i \in WS}

VARIABLES
    now,          \* Date.now()
    wsState,      \* server side of each visitor socket: new, open, closing, closed
    wsDO,         \* the Durable Object a socket was routed to
    registered,   \* the /register requests the instances have handled, in order
    wsOut,        \* envelopes sent on each socket, in order
    heap,         \* SessionState objects in memory, by reference
    sessions,     \* ChatSession.sessions of each instance: Map<WebSocket, SessionState>
    storSession,  \* state.storage of each instance, keys session:<id>
    storThread,   \* state.storage of each instance, keys thread:<id>
    rateLimits,   \* ChatSession.rateLimits of each instance
    init,         \* the handleInit call in progress on each socket
    sends,        \* handleUserMessage calls awaiting discord.sendMessage
    fwd,          \* /relay requests a coordinator forwarded to a session instance
    threads,      \* Discord: threads of the support channel
    posted,       \* Discord: messages posted, in arrival order
    nextSid,      \* number of session ids drawn from crypto.randomUUID()
    relayLog,     \* requests handled by POST /relay: the response, and the sockets
                  \* that were active on the request's thread
    accepted,     \* per session id, the times at which checkRateLimit returned true
    recorded,     \* per session id, every message pushed to a messageHistory
    expired,      \* session ids whose stored lastActivity has been over an hour old
    cnt           \* how many of each bounded input the environment has produced

sessVars == <<now, wsState, wsDO, registered, wsOut, heap, sessions, storSession, storThread,
              rateLimits, init, sends, fwd, threads, posted, nextSid, relayLog,
              accepted, recorded, expired, cnt>>

IdleInit == [pc |-> "idle", data |-> [name |-> <<>>, email |-> <<>>, page |-> "",
                                      turnstileToken |-> "", sessionId |-> NoSid],
             sessionId |-> NoSid, threadId |-> <<>>,
             result |-> "none", resultSid |-> NoSid, stored |-> FALSE, age |-> 0]

\* the session ids drawn so far
IssuedSids == {SidName(i) : i \in 1..nextSid}

(***************************************************************************)
(* Helpers on maps                                                         *)
(***************************************************************************)
Has(m, k) == k \in DOMAIN m

\* a put that would keep the value a key already has
PutIfAbsent(m, k, v) == IF k \in DOMAIN m THEN m ELSE m @@ (k :> v)

Put(m, k, v) == IF k \in DOMAIN m THEN [m EXCEPT ![k] = v] ELSE m @@ (k :> v)

\* Map<WebSocket, SessionState> keeps insertion order; set() on a present key
\* replaces the value in place.
MapHas(map, w) == \E i \in 1..Len(map) : map[i].ws = w
MapGet(map, w) == (CHOOSE i \in 1..Len(map) : map[i].ws = w)
MapSet(map, w, ref) ==
    IF MapHas(map, w)
    THEN [map EXCEPT ![MapGet(map, w)] = [ws |-> w, ref |-> ref]]
    ELSE Append(map, [ws |-> w, ref |-> ref])
MapDelete(map, w) == SelectSeq(map, LAMBDA e : e.ws # w)

RemoveAt(s, i) == SubSeq(s, 1, i - 1) \o SubSeq(s, i + 1, Len(s))

(***************************************************************************)
(* Values                                                                  *)
(***************************************************************************)
NoThread == <<>>
AgentName == <<"g">>
Text(id, len) == [id |-> id, len |-> len]
TextHi == Text("hi", 2)

ReadyEnv(message, sessionId) ==
    [type |-> "ready", data |-> [message |-> message, sessionId |-> sessionId]]
MessageEnv(msg) == [type |-> "message", data |-> msg]
ErrorEnv(message) == [type |-> "error", data |-> [message |-> message]]

\* sendMessage: the envelope is written only when the socket is OPEN
sendMessage(out, w, env) ==
    IF wsState[w] = "open" THEN [out EXCEPT ![w] = Append(@, env)] ELSE out

sendError(out, w, message) == sendMessage(out, w, ErrorEnv(message))

\* ws.close() called by the server
wsClose(w) == IF wsState[w] = "open" THEN [wsState EXCEPT ![w] = "closing"] ELSE wsState

RECURSIVE sendAll(_, _, _)
sendAll(out, w, msgs) ==
    IF msgs = <<>> THEN out
    ELSE sendAll(sendMessage(out, w, MessageEnv(Head(msgs))), w, Tail(msgs))

\* a history that would keep its oldest 50 entries instead (slice(0, 50))
pushHistoryOldest(history, m) ==
    LET h == Append(history, m)
    IN  IF Len(h) > HISTORY_CAP THEN SubSeq(h, 1, HISTORY_CAP) ELSE h

\* messageHistory.push(m) followed by the slice(-50) that keeps the newest 50
pushHistory(history, m) ==
    LET h == Append(history, m)
    IN  IF Len(h) > HISTORY_CAP THEN SubSeq(h, Len(h) - HISTORY_CAP + 1, Len(h)) ELSE h

Log(log, sid, x) == Put(log, sid, (IF Has(log, sid) THEN log[sid] ELSE <<>>) \o <<x>>)

(***************************************************************************)
(* Discord REST client (discord.ts)                                        *)
(***************************************************************************)
\* A snowflake id is the triple of its bit fields <<id >> 22, id mod 2^22>>, the
\* first of them, a time in milliseconds counted from the epoch of the model's
\* clock, held as whole seconds and the milliseconds left: <<s, ms, n>>.
SnowflakeTimestamp(id) == <<id[1], id[2]>>

\* age < maxAge, where age = now - timestamp and maxAge = maxDays * 24 * 60 * 60
\* * 1000: for the timestamp 1000 * s + ms that is
\* floor((now - ms) / 1000) - s < maxDays * 24 * 60 * 60
isThreadRecent(threadId, maxDays) ==
    LET timestamp == SnowflakeTimestamp(threadId)
    IN  (now - timestamp[2]) \div 1000 - timestamp[1] < maxDays * 24 * 60 * 60

\* the first thread of a listing whose name includes the e-mail and is recent
FirstMatch(archived, email) ==
    LET hits == {i \in 1..Len(threads) :
                    /\ threads[i].archived = archived
                    /\ Includes(threads[i].name, email)
                    /\ isThreadRecent(threads[i].id, MAX_THREAD_DAYS)}
    IN  IF hits = {} THEN 0 ELSE CHOOSE i \in hits : \A j \in hits : i <= j

(***************************************************************************)
(* Main worker: fetch router (index.ts)                                    *)
(***************************************************************************)
\* GET /ws with an allowed Origin and Upgrade: websocket.  The request goes to
\* the instance named by a fresh crypto.randomUUID(), whose fetch() accepts
\* the socket.
handleWebSocket(w) ==
    /\ wsState[w] = "new"
    /\ \A v \in WS : v < w => wsState[v] # "new"
    /\ wsState' = [wsState EXCEPT ![w] = "open"]
    /\ wsDO' = [wsDO EXCEPT ![w] = UuidName(w)]
    /\ cnt' = [cnt EXCEPT !.conn = @ + 1]
    /\ UNCHANGED <<now, expired, registered, wsOut, heap, sessions, storSession, storThread,
                   rateLimits, init, sends, fwd, threads, posted, nextSid, relayLog,
                   accepted, recorded>>

(***************************************************************************)
(* ChatSession: the handshake (handleInit, restoreSession, createSession)  *)
(***************************************************************************)
\* the handshake ends with an error envelope and ws.close()
InitFails(w, message) ==
    /\ wsOut' = sendError(wsOut, w, message)
    /\ wsState' = wsClose(w)
    /\ init' = [init EXCEPT ![w].pc = "idle", ![w].result = "error"]

\* `init` received: the synchronous checks, then validateTurnstile is awaited
handleInit(w, data) ==
    /\ wsState[w] = "open"
    /\ init[w].pc = "idle"
    /\ cnt' = [cnt EXCEPT !.init = @ + 1]
    /\ IF data.name = <<>> \/ data.email = <<>> \/ data.turnstileToken = ""
       THEN InitFails(w, "Missing required fields")
       ELSE IF ~isValidEmail(data.email)
       THEN InitFails(w, "Invalid email format")
       ELSE /\ init' = [init EXCEPT ![w] = [IdleInit EXCEPT !.pc = "turnstile", !.data = data]]
            /\ UNCHANGED <<wsOut, wsState>>
    /\ UNCHANGED <<now, expired, wsDO, registered, heap, sessions, storSession, storThread, rateLimits,
                   sends, fwd, threads, posted, nextSid, relayLog, accepted, recorded>>

\* the validity test with its operands exchanged, which rejects no session
SessionExpiredSwapped(session) == session.lastActivity - now > SESSION_TIMEOUT

\* restoreSession's validity test: Date.now() - session.lastActivity > SESSION_TIMEOUT
\* rejects the session
SessionExpired(session) == now - session.lastActivity > SESSION_TIMEOUT

\* restoreSession returns true
CanRestore(d, sessionId) ==
    /\ Has(storSession[d], sessionId)
    /\ ~SessionExpired(storSession[d][sessionId])

\* what the handshake knows about the requested session id when it looks it up:
\* is it stored in some instance, and how old is its lastActivity
StoredAnywhere(sessionId) == \E d \in DOs : Has(storSession[d], sessionId)
StoredAge(sessionId) ==
    LET d == CHOOSE d \in DOs : Has(storSession[d], sessionId)
    IN  now - storSession[d][sessionId].lastActivity

restoreSession(w, sessionId) ==
    LET d == wsDO[w]
        session == [storSession[d][sessionId] EXCEPT !.lastActivity = now]
    IN  /\ heap' = Append(heap, session)
        /\ sessions' = [sessions EXCEPT ![d] = MapSet(@, w, Len(heap) + 1)]
        /\ storSession' = [storSession EXCEPT ![d] = Put(@, sessionId, session)]
        /\ wsOut' = sendAll(sendMessage(wsOut, w,
                                ReadyEnv("Session restored. Welcome back!", session.sessionId)),
                            w, session.messageHistory)
        /\ init' = [init EXCEPT ![w].pc = "idle", ![w].result = "restored",
                                ![w].resultSid = session.sessionId,
                                ![w].stored = TRUE,
                                ![w].age = now - storSession[d][sessionId].lastActivity]

\* validateTurnstile has answered; a valid token leads to restoreSession or to
\* createSession, which draws the session id and awaits the thread search
turnstileDone(w, isValid) ==
    /\ init[w].pc = "turnstile"
    /\ LET data == init[w].data IN
       IF ~isValid
       THEN /\ InitFails(w, "Failed to verify CAPTCHA. Please try again.")
            /\ UNCHANGED <<heap, sessions, storSession, nextSid>>
       ELSE IF data.sessionId # NoSid /\ CanRestore(wsDO[w], data.sessionId)
       THEN /\ restoreSession(w, data.sessionId)
            /\ UNCHANGED <<wsState, nextSid>>
       ELSE /\ nextSid' = nextSid + 1
            /\ init' = [init EXCEPT ![w].pc = "findActive",
                                    ![w].sessionId = SidName(nextSid + 1),
                                    ![w].stored = (data.sessionId # NoSid
                                                   /\ StoredAnywhere(data.sessionId)),
                                    ![w].age = IF data.sessionId # NoSid
                                                  /\ StoredAnywhere(data.sessionId)
                                               THEN StoredAge(data.sessionId) ELSE 0]
            /\ UNCHANGED <<wsOut, wsState, heap, sessions, storSession>>
    /\ UNCHANGED <<now, expired, wsDO, registered, storThread, rateLimits, sends, fwd, threads, posted,
                   relayLog, accepted, recorded, cnt>>

\* createSession once findOrCreateThread has returned threadId: the session
\* object is built, bound to the socket and stored, and the registration with
\* the coordinator is awaited
SessionCreated(w, threadId) ==
    LET d == wsDO[w]
        data == init[w].data
        session == [sessionId |-> init[w].sessionId, email |-> data.email,
                    name |-> data.name, threadId |-> threadId, createdAt |-> now,
                    lastActivity |-> now, messageCount |-> 0, messageHistory |-> <<>>]
    IN  /\ heap' = Append(heap, session)
        /\ sessions' = [sessions EXCEPT ![d] = MapSet(@, w, Len(heap) + 1)]
        /\ storSession' = [storSession EXCEPT ![d] = Put(@, session.sessionId, session)]
        /\ init' = [init EXCEPT ![w].pc = "register", ![w].threadId = threadId]

\* findThreadByEmail: GET .../threads/active has answered
findActiveDone(w, ok) ==
    /\ init[w].pc = "findActive"
    /\ LET hit == FirstMatch(FALSE, init[w].data.email) IN
       IF ~ok
       THEN /\ init' = [init EXCEPT ![w].pc = "create"]
            /\ UNCHANGED <<heap, sessions, storSession>>
       ELSE IF hit # 0
       THEN SessionCreated(w, threads[hit].id)
       ELSE /\ init' = [init EXCEPT ![w].pc = "findArchived"]
            /\ UNCHANGED <<heap, sessions, storSession>>
    /\ UNCHANGED <<now, expired, wsState, wsDO, registered, wsOut, storThread, rateLimits, sends, fwd,
                   threads, posted, nextSid, relayLog, accepted, recorded, cnt>>

\* findThreadByEmail: GET .../threads/archived/public has answered
findArchivedDone(w, ok) ==
    /\ init[w].pc = "findArchived"
    /\ LET hit == FirstMatch(TRUE, init[w].data.email) IN
       IF ok /\ hit # 0
       THEN init' = [init EXCEPT ![w].pc = "unarchive", ![w].threadId = threads[hit].id]
       ELSE init' = [init EXCEPT ![w].pc = "create"]
    /\ UNCHANGED <<now, expired, wsState, wsDO, registered, wsOut, heap, sessions, storSession, storThread,
                   rateLimits, sends, fwd, threads, posted, nextSid, relayLog,
                   accepted, recorded, cnt>>

\* unarchiveThread: PATCH /channels/<id> has answered
unarchiveDone(w, ok) ==
    /\ init[w].pc = "unarchive"
    /\ IF ok
       THEN /\ threads' = [i \in 1..Len(threads) |->
                              IF threads[i].id = init[w].threadId
                              THEN [threads[i] EXCEPT !.archived = FALSE]
                              ELSE threads[i]]
            /\ SessionCreated(w, init[w].threadId)
            /\ UNCHANGED <<wsOut, wsState>>
       ELSE /\ InitFails(w, "Failed to initialize session")
            /\ UNCHANGED <<threads, heap, sessions, storSession>>
    /\ UNCHANGED <<now, expired, wsDO, registered, storThread, rateLimits, sends, fwd, posted, nextSid,
                   relayLog, accepted, recorded, cnt>>

\* createThread: POST .../threads has answered with the new thread
createThreadDone(w, ok) ==
    /\ init[w].pc = "create"
    /\ IF ok
       THEN LET id == <<now \div 1000, now % 1000, Len(threads) + 1>> IN
            /\ threads' = Append(threads, [id |-> id,
                                           name |-> ThreadName(init[w].data.name,
                                                               init[w].data.email),
                                           archived |-> FALSE])
            /\ SessionCreated(w, id)
            /\ UNCHANGED <<wsOut, wsState>>
       ELSE /\ InitFails(w, "Failed to initialize session")
            /\ UNCHANGED <<threads, heap, sessions, storSession>>
    /\ UNCHANGED <<now, expired, wsDO, registered, storThread, rateLimits, sends, fwd, posted, nextSid,
                   relayLog, accepted, recorded, cnt>>

\* ChatSession.fetch, POST /register, on instance d: storage.put of
\* thread:<threadId>, whatever was stored under the key before
register(d, threadId, doId) ==
    /\ storThread' = [storThread EXCEPT ![d] = Put(@, threadId, doId)]
    /\ registered' = Append(registered, [on |-> d, threadId |-> threadId, doId |-> doId])
    /\ UNCHANGED <<now, expired, wsState, wsDO, wsOut, heap, sessions, storSession,
                   rateLimits, init, sends, fwd, threads, posted, nextSid, relayLog,
                   accepted, recorded, cnt>>

\* the lookup receiveAgentMessage starts with on instance d
NotFound == "undefined"
resolve(d, threadId) ==
    IF Has(storThread[d], threadId) THEN storThread[d][threadId] ELSE NotFound

\* the coordinator's /register: thread:<threadId> := doId, in the instance
\* named message-coordinator; a failed call is logged and createSession goes on
\* to await sendInitialMessage
registerDone(w, ok) ==
    /\ init[w].pc = "register"
    /\ storThread' = IF ok
                     THEN [storThread EXCEPT ![MessageCoordinator] =
                               Put(@, init[w].threadId, wsDO[w])]
                     ELSE storThread
    /\ registered' = IF ok
                     THEN Append(registered, [on |-> MessageCoordinator,
                                              threadId |-> init[w].threadId,
                                              doId |-> wsDO[w]])
                     ELSE registered
    /\ init' = [init EXCEPT ![w].pc = "initial"]
    /\ UNCHANGED <<now, expired, wsState, wsDO, wsOut, heap, sessions, storSession, rateLimits,
                   sends, fwd, threads, posted, nextSid, relayLog, accepted, recorded,
                   cnt>>

\* sendInitialMessage has answered: `ready` is sent, or the handshake fails
initialMessageDone(w, ok) ==
    /\ init[w].pc = "initial"
    /\ IF ok
       THEN /\ posted' = Append(posted, [threadId |-> init[w].threadId,
                                         kind |-> "initial",
                                         author |-> init[w].data.name,
                                         message |-> Text("", 0)])
            /\ wsOut' = sendMessage(wsOut, w,
                            ReadyEnv("Connected to support. An agent will be with you shortly.",
                                     init[w].sessionId))
            /\ init' = [init EXCEPT ![w].pc = "idle", ![w].result = "created",
                                    ![w].resultSid = init[w].sessionId]
            /\ UNCHANGED wsState
       ELSE /\ InitFails(w, "Failed to initialize session")
            /\ UNCHANGED posted
    /\ UNCHANGED <<now, expired, wsDO, registered, heap, sessions, storSession, storThread, rateLimits,
                   sends, fwd, threads, nextSid, relayLog, accepted, recorded, cnt>>

(***************************************************************************)
(* ChatSession: visitor messages (handleUserMessage, checkRateLimit)       *)
(***************************************************************************)
\* a limiter that compares with > where checkRateLimit compares with >=, and
\* so lets an eleventh message through
checkRateLimitLax(limits, sessionId) ==
    IF ~Has(limits, sessionId) \/ now > limits[sessionId].resetAt
    THEN [ok |-> TRUE,
          limits |-> Put(limits, sessionId, [count |-> 1, resetAt |-> now + RATE_WINDOW])]
    ELSE IF limits[sessionId].count > RATE_LIMIT
    THEN [ok |-> FALSE, limits |-> limits]
    ELSE [ok |-> TRUE, limits |-> [limits EXCEPT ![sessionId].count = @ + 1]]

\* checkRateLimit: the verdict and the rateLimits map it leaves behind
checkRateLimit(limits, sessionId) ==
    IF ~Has(limits, sessionId) \/ now > limits[sessionId].resetAt
    THEN [ok |-> TRUE,
          limits |-> Put(limits, sessionId, [count |-> 1, resetAt |-> now + RATE_WINDOW])]
    ELSE IF limits[sessionId].count >= RATE_LIMIT
    THEN [ok |-> FALSE, limits |-> limits]
    ELSE [ok |-> TRUE, limits |-> [limits EXCEPT ![sessionId].count = @ + 1]]

\* a length test that also turns away a message of exactly the maximum length
TooLongFromMax(message) == message.len >= MAX_MESSAGE_LENGTH

\* the length check of handleUserMessage: data.message.length > MAX_MESSAGE_LENGTH
TooLong(message) == message.len > MAX_MESSAGE_LENGTH

\* `message` received: the checks up to the rate limit, then
\* discord.sendMessage is awaited
handleUserMessage(w, message) ==
    /\ wsState[w] = "open"
    /\ cnt' = [cnt EXCEPT !.submit = @ + 1]
    /\ LET d == wsDO[w] IN
       IF ~MapHas(sessions[d], w)
       THEN /\ wsOut' = sendError(wsOut, w, "Session not initialized")
            /\ UNCHANGED <<rateLimits, sends, accepted>>
       ELSE IF message.len = 0
       THEN /\ wsOut' = sendError(wsOut, w, "Invalid message")
            /\ UNCHANGED <<rateLimits, sends, accepted>>
       ELSE IF TooLong(message)
       THEN /\ wsOut' = sendError(wsOut, w, "Message too long (max 2000 characters)")
            /\ UNCHANGED <<rateLimits, sends, accepted>>
       ELSE LET ref == sessions[d][MapGet(sessions[d], w)].ref
                sessionId == heap[ref].sessionId
                verdict == checkRateLimit(rateLimits[d], sessionId)
            IN  IF ~verdict.ok
                THEN /\ wsOut' = sendError(wsOut, w, "Rate limit exceeded. Please slow down.")
                     /\ UNCHANGED <<rateLimits, sends, accepted>>
                ELSE /\ rateLimits' = [rateLimits EXCEPT ![d] = verdict.limits]
                     /\ sends' = Append(sends, [ws |-> w, ref |-> ref, message |-> message])
                     /\ accepted' = Log(accepted, sessionId, now)
                     /\ UNCHANGED wsOut
    /\ UNCHANGED <<now, expired, wsState, wsDO, registered, heap, sessions, storSession, storThread, init,
                   fwd, threads, posted, nextSid, relayLog, recorded>>

\* a submit that would count the message before the send has succeeded
sendDoneCounts(i, ok) ==
    /\ i \in 1..Len(sends)
    /\ LET w == sends[i].ws
           ref == sends[i].ref
           session == heap[ref]
           storedMessage == [author |-> session.name, message |-> sends[i].message,
                             timestamp |-> now]
           updated == [session EXCEPT !.messageCount = @ + 1,
                                      !.lastActivity = now,
                                      !.messageHistory = pushHistory(@, storedMessage)]
       IN  IF ok
           THEN /\ posted' = Append(posted, [threadId |-> session.threadId,
                                             kind |-> "visitor",
                                             author |-> session.name,
                                             message |-> sends[i].message])
                /\ heap' = [heap EXCEPT ![ref] = updated]
                /\ storSession' = [storSession EXCEPT ![wsDO[w]] =
                                       Put(@, session.sessionId, updated)]
                /\ recorded' = Log(recorded, session.sessionId, storedMessage)
                /\ UNCHANGED wsOut
           ELSE /\ wsOut' = sendError(wsOut, w, "Failed to send message. Please try again.")
                /\ heap' = [heap EXCEPT ![ref].messageCount = @ + 1]
                /\ UNCHANGED <<posted, storSession, recorded>>
    /\ sends' = RemoveAt(sends, i)
    /\ UNCHANGED <<now, expired, wsState, wsDO, registered, sessions, storThread, rateLimits, init, fwd,
                   threads, nextSid, relayLog, accepted, cnt>>

\* discord.sendMessage of the i-th waiting call has answered
sendDone(i, ok) ==
    /\ i \in 1..Len(sends)
    /\ LET w == sends[i].ws
           ref == sends[i].ref
           session == heap[ref]
           storedMessage == [author |-> session.name, message |-> sends[i].message,
                             timestamp |-> now]
           updated == [session EXCEPT !.messageCount = @ + 1,
                                      !.lastActivity = now,
                                      !.messageHistory = pushHistory(@, storedMessage)]
       IN  IF ok
           THEN /\ posted' = Append(posted, [threadId |-> session.threadId,
                                             kind |-> "visitor",
                                             author |-> session.name,
                                             message |-> sends[i].message])
                /\ heap' = [heap EXCEPT ![ref] = updated]
                /\ storSession' = [storSession EXCEPT ![wsDO[w]] =
                                       Put(@, session.sessionId, updated)]
                /\ recorded' = Log(recorded, session.sessionId, storedMessage)
                /\ UNCHANGED wsOut
           ELSE /\ wsOut' = sendError(wsOut, w, "Failed to send message. Please try again.")
                /\ UNCHANGED <<posted, heap, storSession, recorded>>
    /\ sends' = RemoveAt(sends, i)
    /\ UNCHANGED <<now, expired, wsState, wsDO, registered, sessions, storThread, rateLimits, init, fwd,
                   threads, nextSid, relayLog, accepted, cnt>>

(***************************************************************************)
(* ChatSession: agent messages (receiveAgentMessage)                       *)
(***************************************************************************)
\* a delivery loop without the test session.threadId === threadId: it hands the
\* message to every attached session
RECURSIVE deliverLoopAny(_, _, _, _, _)
deliverLoopAny(d, i, threadId, messageData, st) ==
    IF i > Len(sessions[d]) THEN st
    ELSE LET w == sessions[d][i].ws
             ref == sessions[d][i].ref
             session == st.heap[ref]
             updated == [session EXCEPT
                            !.messageHistory = pushHistory(@, messageData),
                            !.lastActivity = now]
         IN  deliverLoopAny(d, i + 1, threadId, messageData,
                 [out  |-> sendMessage(st.out, w, MessageEnv(messageData)),
                  heap |-> [st.heap EXCEPT ![ref] = updated],
                  stor |-> Put(st.stor, session.sessionId, updated),
                  rec  |-> Log(st.rec, session.sessionId, messageData)])

\* the delivery loop of receiveAgentMessage over the entries of this.sessions
\* from position i on; st carries wsOut, heap, storage and the record log
RECURSIVE deliverLoop(_, _, _, _, _)
deliverLoop(d, i, threadId, messageData, st) ==
    IF i > Len(sessions[d]) THEN st
    ELSE LET w == sessions[d][i].ws
             ref == sessions[d][i].ref
             session == st.heap[ref]
             updated == [session EXCEPT
                            !.messageHistory = pushHistory(@, messageData),
                            !.lastActivity = now]
         IN  IF session.threadId = threadId
             THEN deliverLoop(d, i + 1, threadId, messageData,
                      [out  |-> sendMessage(st.out, w, MessageEnv(messageData)),
                       heap |-> [st.heap EXCEPT ![ref] = updated],
                       stor |-> Put(st.stor, session.sessionId, updated),
                       rec  |-> Log(st.rec, session.sessionId, messageData)])
             ELSE deliverLoop(d, i + 1, threadId, messageData, st)

\* receiveAgentMessage on instance d: an instance holding thread:<threadId>
\* forwards the message to the instance stored there (queue is the forwarded
\* requests still under way), any other instance delivers it to its own
\* sessions bound to that thread
receiveAgentMessage(d, threadId, message, author, queue) ==
    IF resolve(d, threadId) # NotFound
    THEN /\ fwd' = Append(queue, [to |-> resolve(d, threadId), threadId |-> threadId,
                                  message |-> message, author |-> author])
         /\ UNCHANGED <<wsOut, heap, storSession, recorded>>
    ELSE LET messageData == [message |-> message, author |-> author, timestamp |-> now]
             st == deliverLoop(d, 1, threadId, messageData,
                               [out |-> wsOut, heap |-> heap, stor |-> storSession[d],
                                rec |-> recorded])
         IN  /\ wsOut' = st.out
             /\ heap' = st.heap
             /\ storSession' = [storSession EXCEPT ![d] = st.stor]
             /\ recorded' = st.rec
             /\ fwd' = queue

\* the sockets whose handshake has sent `ready` and that hold a live session
\* bound to threadId
ActiveOn(threadId) ==
    {w \in WS : /\ wsState[w] = "open"
                /\ init[w].pc = "idle"
                /\ init[w].result \in {"created", "restored"}
                /\ MapHas(sessions[wsDO[w]], w)
                /\ heap[sessions[wsDO[w]][MapGet(sessions[wsDO[w]], w)].ref].threadId
                      = threadId}

\* the Authorization check of POST /relay: the header is there and is exactly
\* `Bearer <BOT_RELAY_SECRET>`
BOT_RELAY_SECRET == "s3cret"
NoHeader == "null"
\* a check that would also accept the bare secret
AuthorizedBare(authHeader) ==
    authHeader # NoHeader /\ authHeader \in {"Bearer " \o BOT_RELAY_SECRET, BOT_RELAY_SECRET}

Authorized(authHeader) ==
    ~(authHeader = NoHeader \/ authHeader # "Bearer " \o BOT_RELAY_SECRET)

\* POST /relay on the main worker.  req.auth tells whether the Authorization
\* header equals `Bearer <BOT_RELAY_SECRET>`; an absent field is empty.
handleRelayMessage(req) ==
    /\ cnt' = [cnt EXCEPT !.push = @ + 1]
    /\ IF ~req.auth
       THEN /\ relayLog' = Append(relayLog, [req |-> req, status |-> 401, active |-> {}])
            /\ UNCHANGED <<wsOut, heap, storSession, recorded, fwd>>
       ELSE IF req.threadId = NoThread \/ req.message.len = 0 \/ req.author = <<>>
       THEN /\ relayLog' = Append(relayLog, [req |-> req, status |-> 400, active |-> {}])
            /\ UNCHANGED <<wsOut, heap, storSession, recorded, fwd>>
       ELSE /\ receiveAgentMessage(RelayCoordinator, req.threadId, req.message,
                                   req.author, fwd)
            /\ relayLog' = Append(relayLog, [req |-> req, status |-> 200,
                                         active |-> ActiveOn(req.threadId)])
    /\ UNCHANGED <<now, expired, wsState, wsDO, registered, sessions, storThread, rateLimits, init, sends,
                   threads, posted, nextSid, accepted>>

\* ChatSession.fetch, POST /relay, on the instance a forwarded request names
sessionRelay(i) ==
    /\ i \in 1..Len(fwd)
    /\ receiveAgentMessage(fwd[i].to, fwd[i].threadId, fwd[i].message, fwd[i].author,
                           RemoveAt(fwd, i))
    /\ UNCHANGED <<now, expired, wsState, wsDO, registered, sessions, storThread, rateLimits, init, sends,
                   threads, posted, nextSid, relayLog, accepted, cnt>>

(***************************************************************************)
(* ChatSession: transport loss (handleClose), and the clock                *)
(***************************************************************************)
\* a close that would destroy the session: the record of the session bound to
\* the socket is deleted from storage together with the binding
handleCloseDestroys(w) ==
    /\ wsState[w] \in {"open", "closing"}
    /\ wsState' = [wsState EXCEPT ![w] = "closed"]
    /\ sessions' = [sessions EXCEPT ![wsDO[w]] = MapDelete(@, w)]
    /\ storSession' =
          IF MapHas(sessions[wsDO[w]], w)
          THEN LET sessionId == heap[sessions[wsDO[w]][MapGet(sessions[wsDO[w]], w)].ref].sessionId
                   m == storSession[wsDO[w]]
               IN  [storSession EXCEPT ![wsDO[w]] = [k \in DOMAIN m \ {sessionId} |-> m[k]]]
          ELSE storSession
    /\ UNCHANGED <<now, expired, wsDO, registered, wsOut, heap, storThread, rateLimits, init,
                   sends, fwd, threads, posted, nextSid, relayLog, accepted, recorded,
                   cnt>>

\* the close (or error) event of a socket: the visitor went away, or the
\* server's own ws.close() has completed
handleClose(w) ==
    /\ wsState[w] \in {"open", "closing"}
    /\ wsState' = [wsState EXCEPT ![w] = "closed"]
    /\ sessions' = [sessions EXCEPT ![wsDO[w]] = MapDelete(@, w)]
    /\ UNCHANGED <<now, expired, wsDO, registered, wsOut, heap, storSession, storThread, rateLimits, init,
                   sends, fwd, threads, posted, nextSid, relayLog, accepted, recorded,
                   cnt>>

Tick(dt) ==
    /\ now' = now + dt
    /\ expired' = expired \cup
                    {sid \in IssuedSids :
                        \E d \in DOs : /\ Has(storSession[d], sid)
                                       /\ now + dt - storSession[d][sid].lastActivity
                                              > SESSION_TIMEOUT}
    /\ cnt' = [cnt EXCEPT !.tick = @ + 1]
    /\ UNCHANGED <<wsState, wsDO, registered, wsOut, heap, sessions, storSession, storThread,
                   rateLimits, init, sends, fwd, threads, posted, nextSid, relayLog,
                   accepted, recorded>>

(***************************************************************************)
(* Bot relay: the DiscordGateway Durable Object                            *)
(***************************************************************************)
OP_DISPATCH == 0
OP_HEARTBEAT == 1
OP_IDENTIFY == 2
OP_RESUME == 6
OP_RECONNECT == 7
OP_INVALID_SESSION == 9
OP_HELLO == 10
OP_HEARTBEAT_ACK == 11

RECONNECT_STEP == 5000
RECONNECT_MAX == 60000
INVALID_SESSION_DELAY == 5000

Null == -1          \* null in a number field
NullId == ""        \* null in a string field
NoData == [none |-> TRUE]

MaxFrames == 3
MaxBeats == 3
MaxCloses == 2
MaxSocks == 3

VARIABLES
    gw,        \* the DiscordGateway object: its fields, the sockets it created
               \* (socks), its pending setTimeout callbacks (timers) and the
               \* payloads it wrote (sent)
    gwRemote,  \* the remote platform: what it does next on each socket, and
               \* the sequence number of its last dispatch
    gwRelay,   \* relay pushes issued to the main worker
    gwGhost    \* bookkeeping for the properties

gwVars == <<gw, gwRemote, gwRelay, gwGhost>>
vars == <<now, wsState, wsDO, registered, wsOut, heap, sessions, storSession, storThread,
          rateLimits, init, sends, fwd, threads, posted, nextSid, relayLog,
          accepted, recorded, expired, cnt, gw, gwRemote, gwRelay, gwGhost>>

Min(a, b) == IF a < b THEN a ELSE b

\* connect(): returns at once while isReconnecting, else creates the socket
connect(g) ==
    IF g.isReconnecting THEN g
    ELSE [g EXCEPT !.socks = Append(@, "connecting"), !.ws = Len(g.socks) + 1]

\* cleanup(): clearInterval of the heartbeat
cleanup(g) == [g EXCEPT !.heartbeatInterval = Null]

\* a backoff that would grow without a ceiling
scheduleReconnectUncapped(g) ==
    IF g.isReconnecting THEN g
    ELSE LET attempts == g.reconnectAttempts + 1
         IN  [g EXCEPT !.reconnectAttempts = attempts,
                       !.timers = Append(@, RECONNECT_STEP * attempts)]

\* scheduleReconnect(): one more setTimeout(() => this.reconnect(), delay)
scheduleReconnect(g) ==
    IF g.isReconnecting THEN g
    ELSE LET attempts == g.reconnectAttempts + 1
         IN  [g EXCEPT !.reconnectAttempts = attempts,
                       !.timers = Append(@, Min(RECONNECT_STEP * attempts, RECONNECT_MAX))]

\* a reconnect that would open the next socket and leave the current one
reconnectOpens(g) ==
    LET g1 == cleanup(g)
    IN  [g1 EXCEPT !.socks = Append(@, "connecting"), !.ws = Len(g1.socks) + 1]

\* reconnect(): runs to its end without letting an event in, connect() having
\* nothing to wait for
reconnect(g) ==
    LET g1 == cleanup([g EXCEPT !.isReconnecting = TRUE])
        g2 == IF g1.ws # 0
              THEN [g1 EXCEPT !.socks[g1.ws] = IF @ \in {"connecting", "open"}
                                                THEN "closing" ELSE @,
                              !.ws = 0]
              ELSE g1
        g3 == connect(g2)
    IN  [g3 EXCEPT !.isReconnecting = FALSE]

\* send(): the payload is written only when the current socket is OPEN
send(g, op, d) ==
    IF g.ws # 0 /\ g.socks[g.ws] = "open"
    THEN [g EXCEPT !.sent = Append(@, [sock |-> g.ws, op |-> op, d |-> d])]
    ELSE g

\* startHeartbeat(interval): the previous interval timer is replaced
startHeartbeat(g, interval) == [g EXCEPT !.heartbeatInterval = interval]

identify(g) == send(g, OP_IDENTIFY, NoData)

resume(g) == send(g, OP_RESUME, [session_id |-> g.sessionId, seq |-> g.sequenceNumber])

\* a HELLO handler that would resume whenever a sequence number is known
handleHelloSeqOnly(g, d) ==
    LET g1 == startHeartbeat(g, d.heartbeat_interval)
    IN  IF g1.sequenceNumber # Null
        THEN resume(g1)
        ELSE identify(g1)

handleHello(g, d) ==
    LET g1 == startHeartbeat(g, d.heartbeat_interval)
    IN  IF g1.sessionId # NullId /\ g1.sequenceNumber # Null
        THEN resume(g1)
        ELSE identify(g1)

handleDispatch(g, payload) ==
    IF payload.t = "READY" THEN [g EXCEPT !.sessionId = payload.d.session_id] ELSE g

\* a relay that would push the bot's own messages too
handleMessageCreateBots(message) ==
    IF message.content.len = 0 THEN <<>>
    ELSE <<[threadId |-> message.channel_id, message |-> message.content,
            author |-> message.author.username, timestamp |-> now]>>

\* handleMessageCreate: the relay pushes a MESSAGE_CREATE event causes
handleMessageCreate(message) ==
    IF message.author.bot THEN <<>>
    ELSE IF message.content.len = 0 THEN <<>>
    ELSE <<[threadId |-> message.channel_id, message |-> message.content,
            author |-> message.author.username, timestamp |-> now]>>

\* a handler that would keep the session on INVALID_SESSION
handleMessageKeeps(g, payload) ==
    LET g1 == IF payload.s # Null THEN [g EXCEPT !.sequenceNumber = payload.s] ELSE g
    IN  CASE payload.op = OP_HELLO -> handleHello(g1, payload.d)
          [] payload.op = OP_DISPATCH -> handleDispatch(g1, payload)
          [] payload.op = OP_HEARTBEAT_ACK -> g1
          [] payload.op = OP_RECONNECT -> reconnect(g1)
          [] payload.op = OP_INVALID_SESSION ->
                [g1 EXCEPT !.timers = Append(@, INVALID_SESSION_DELAY)]
          [] OTHER -> g1

\* handleMessage: the fields after a frame has been handled
handleMessage(g, payload) ==
    LET g1 == IF payload.s # Null THEN [g EXCEPT !.sequenceNumber = payload.s] ELSE g
    IN  CASE payload.op = OP_HELLO -> handleHello(g1, payload.d)
          [] payload.op = OP_DISPATCH -> handleDispatch(g1, payload)
          [] payload.op = OP_HEARTBEAT_ACK -> g1
          [] payload.op = OP_RECONNECT -> reconnect(g1)
          [] payload.op = OP_INVALID_SESSION ->
                [g1 EXCEPT !.sessionId = NullId, !.sequenceNumber = Null,
                           !.timers = Append(@, INVALID_SESSION_DELAY)]
          [] OTHER -> g1

(***************************************************************************)
(* The gateway's events.  The remote platform follows its protocol: HELLO  *)
(* on a fresh connection, READY after IDENTIFY, RESUMED or INVALID_SESSION *)
(* after RESUME, then dispatches with increasing sequence numbers.         *)
(***************************************************************************)
HEARTBEAT_MS == 30000
RemoteSessionId == "abc"
Channel == <<0, 0, 1>>

GwNew == [ws |-> 0, heartbeatInterval |-> Null, sessionId |-> NullId,
          sequenceNumber |-> Null, reconnectAttempts |-> 0, isReconnecting |-> FALSE,
          socks |-> <<>>, timers |-> <<>>, sent |-> <<>>]

Frame(op, s, t, d) == [op |-> op, s |-> s, t |-> t, d |-> d]

DiscordMessages ==
    {[author |-> [bot |-> b, username |-> AgentName], content |-> c, channel_id |-> Channel] :
        b \in BOOLEAN, c \in {TextHi, Text("yo", 2), Text("", 0)}}

\* the frames the remote platform may send next on socket k
RemoteFrames(k) ==
    LET phase == gwRemote.phase[k]
        n == gwRemote.seq + 1
    IN  IF phase = "hello"
        THEN {Frame(OP_HELLO, Null, "", [heartbeat_interval |-> HEARTBEAT_MS])}
        ELSE IF phase = "identify"
        THEN {Frame(OP_DISPATCH, 1, "READY", [session_id |-> RemoteSessionId])}
        ELSE IF phase = "resume"
        THEN {Frame(OP_DISPATCH, n, "RESUMED", NoData),
              Frame(OP_INVALID_SESSION, Null, "", NoData)}
        ELSE IF phase = "live"
        THEN {Frame(OP_DISPATCH, n, "MESSAGE_CREATE", m) : m \in DiscordMessages}
             \cup {Frame(OP_RECONNECT, Null, "", NoData),
                   Frame(OP_INVALID_SESSION, Null, "", NoData)}
             \cup (IF gwGhost.unacked > 0
                   THEN {Frame(OP_HEARTBEAT_ACK, Null, "", NoData)} ELSE {})
        ELSE IF gwGhost.unacked > 0
        THEN {Frame(OP_HEARTBEAT_ACK, Null, "", NoData)} ELSE {}

\* what the remote platform does next on socket k once the frame is handled
PhaseAfter(k, payload, g2) ==
    LET wrote == Len(g2.sent) > Len(gw.sent)
        last == g2.sent[Len(g2.sent)]
    IN  IF payload.op = OP_HELLO
        THEN (IF wrote /\ last.op = OP_IDENTIFY THEN "identify"
              ELSE IF wrote /\ last.op = OP_RESUME THEN "resume" ELSE "wait")
        ELSE IF payload.op = OP_DISPATCH /\ payload.t \in {"READY", "RESUMED"} THEN "live"
        ELSE IF payload.op = OP_INVALID_SESSION THEN "wait"
        ELSE gwRemote.phase[k]

\* a socket created by connect() is one on which the remote platform owes HELLO
Phases(phase, g2) == phase \o [i \in 1..(Len(g2.socks) - Len(phase)) |-> "hello"]

\* the state after construction: no visitor socket, empty storage in every
\* instance, and the gateway object whose constructor has called connect()
Init ==
    /\ now = 0
    /\ wsState = [w \in WS |-> "new"]
    /\ wsDO = [w \in WS |-> ""]
    /\ registered = <<>>
    /\ wsOut = [w \in WS |-> <<>>]
    /\ heap = <<>>
    /\ sessions = [d \in DOs |-> <<>>]
    /\ storSession = [d \in DOs |-> <<>>]
    /\ storThread = [d \in DOs |-> <<>>]
    /\ rateLimits = [d \in DOs |-> <<>>]
    /\ init = [w \in WS |-> IdleInit]
    /\ sends = <<>>
    /\ fwd = <<>>
    /\ threads = <<>>
    /\ posted = <<>>
    /\ nextSid = 0
    /\ relayLog = <<>>
    /\ accepted = <<>>
    /\ recorded = <<>>
    /\ expired = {}
    /\ cnt = [conn |-> 0, init |-> 0, submit |-> 0, push |-> 0, tick |-> 0]
    /\ gw = connect(GwNew)
    /\ gwRemote = [phase |-> <<"hello">>, seq |-> 0]
    /\ gwRelay = <<>>
    /\ gwGhost = [frames |-> 0, beats |-> 0, closes |-> 0, unacked |-> 0, lost |-> <<>>,
                  dropped |-> <<>>]

\* the `open` event of socket k
gwOpen(k) ==
    /\ k \in 1..Len(gw.socks)
    /\ gw.socks[k] = "connecting"
    /\ gw' = [gw EXCEPT !.socks[k] = "open", !.reconnectAttempts = 0]
    /\ UNCHANGED <<gwRemote, gwRelay, gwGhost>>

\* a `message` event of socket k
gwMessage(k, payload) ==
    /\ k \in 1..Len(gw.socks)
    /\ gw.socks[k] = "open"
    /\ payload \in RemoteFrames(k)
    /\ LET g2 == handleMessage(gw, payload) IN
       /\ gw' = g2
       /\ gwRemote' = [phase |-> Phases([gwRemote.phase EXCEPT ![k] = PhaseAfter(k, payload, g2)], g2),
                       seq |-> IF payload.s # Null THEN payload.s ELSE gwRemote.seq]
    /\ gwRelay' = IF payload.op = OP_DISPATCH /\ payload.t = "MESSAGE_CREATE"
                  THEN gwRelay \o handleMessageCreate(payload.d)
                  ELSE gwRelay
    /\ gwGhost' = [gwGhost EXCEPT !.frames = @ + 1,
                                  !.unacked = IF payload.op = OP_HEARTBEAT_ACK THEN 0 ELSE @,
                                  !.dropped = IF payload.op = OP_INVALID_SESSION
                                                 /\ gw.sessionId # NullId
                                              THEN <<[session_id |-> gw.sessionId,
                                                      seq |-> gw.sequenceNumber]>>
                                              ELSE @]

\* a `message` event of socket k carrying any frame: handleMessage parses
\* whatever arrives, in protocol or not
gwFrame(k, payload) ==
    /\ k \in 1..Len(gw.socks)
    /\ gw.socks[k] = "open"
    /\ LET g2 == handleMessage(gw, payload) IN
       /\ gw' = g2
       /\ gwRemote' = [phase |-> Phases([gwRemote.phase EXCEPT ![k] = PhaseAfter(k, payload, g2)], g2),
                       seq |-> IF payload.s # Null THEN payload.s ELSE gwRemote.seq]
    /\ gwRelay' = IF payload.op = OP_DISPATCH /\ payload.t = "MESSAGE_CREATE"
                  THEN gwRelay \o handleMessageCreate(payload.d)
                  ELSE gwRelay
    /\ gwGhost' = [gwGhost EXCEPT !.frames = @ + 1,
                                  !.unacked = IF payload.op = OP_HEARTBEAT_ACK THEN 0 ELSE @,
                                  !.dropped = IF payload.op = OP_INVALID_SESSION
                                                 /\ gw.sessionId # NullId
                                              THEN <<[session_id |-> gw.sessionId,
                                                      seq |-> gw.sequenceNumber]>>
                                              ELSE @]

\* the heartbeat interval timer fires
gwHeartbeat ==
    /\ gw.heartbeatInterval # Null
    /\ LET g2 == send(gw, OP_HEARTBEAT, [seq |-> gw.sequenceNumber]) IN
       /\ gw' = g2
       /\ gwGhost' = [gwGhost EXCEPT !.beats = @ + 1,
                                     !.unacked = IF Len(g2.sent) > Len(gw.sent)
                                                 THEN @ + 1 ELSE @]
    /\ UNCHANGED <<gwRemote, gwRelay>>

\* the `close` event of socket k: the transport was lost, or the close() the
\* client asked for has completed
gwClose(k) ==
    /\ k \in 1..Len(gw.socks)
    /\ gw.socks[k] \in {"connecting", "open", "closing"}
    /\ LET g2 == scheduleReconnect(cleanup([gw EXCEPT !.socks[k] = "closed"])) IN
       /\ gw' = g2
       /\ gwRemote' = [gwRemote EXCEPT !.phase = Phases(@, g2)]
    /\ gwGhost' = [gwGhost EXCEPT
                      !.closes = IF gw.socks[k] = "closing" THEN @ ELSE @ + 1,
                      !.unacked = 0,
                      !.lost = IF gw.sessionId # NullId /\ gw.sequenceNumber # Null
                               THEN <<[sock |-> k, session_id |-> gw.sessionId,
                                       seq |-> gw.sequenceNumber]>>
                               ELSE @]
    /\ UNCHANGED gwRelay

\* the i-th pending setTimeout fires: reconnect()
gwTimeout(i) ==
    /\ i \in 1..Len(gw.timers)
    /\ LET g2 == reconnect([gw EXCEPT !.timers = RemoveAt(@, i)]) IN
       /\ gw' = g2
       /\ gwRemote' = [gwRemote EXCEPT !.phase = Phases(@, g2)]
    /\ UNCHANGED <<gwRelay, gwGhost>>

\* The DiscordGateway object from its construction on
SpecGateway ==
    /\ Init
    /\ [][ /\ UNCHANGED sessVars
           /\ \/ \E k \in 1..Len(gw.socks) : gwOpen(k)
              \/ \E k \in 1..Len(gw.socks) : \E payload \in RemoteFrames(k) :
                    /\ gwGhost.frames < MaxFrames
                    /\ Len(gw.socks) < MaxSocks
                    /\ gwMessage(k, payload)
              \/ gwGhost.beats < MaxBeats /\ gwHeartbeat
              \/ \E k \in 1..Len(gw.socks) :
                    (gw.socks[k] = "closing" \/ gwGhost.closes < MaxCloses) /\ gwClose(k)
              \/ \E i \in 1..Len(gw.timers) : Len(gw.socks) < MaxSocks /\ gwTimeout(i) ]_vars

(***************************************************************************)
(* Inputs                                                                  *)
(***************************************************************************)
ThreadIds == {threads[i].id : i \in 1..Len(threads)}

\* init payloads of a visitor who passes the synchronous checks
GoodInits ==
    [name : {NameAnn}, email : {EmailAnn}, page : {"/"}, turnstileToken : {"tok"},
     sessionId : {NoSid} \cup IssuedSids]

\* authenticated, complete relay pushes for the known threads
GoodPushes ==
    [auth : {TRUE}, threadId : ThreadIds, message : {TextHi}, author : {AgentName},
     timestamp : {now}]

\* no handler is suspended at an external call
Quiet == sends = <<>> /\ fwd = <<>> /\ \A w \in WS : init[w].pc = "idle"

\* no handshake is under way
Settled == \A w \in WS : init[w].pc = "idle"

\* a visitor opens the next connection once the earlier ones are gone
Reconnects(w) == \A v \in WS : v < w => wsState[v] = "closed"

(***************************************************************************)
(* The main worker as deployed: visitors reach it through GET /ws, the bot *)
(* relay through POST /relay.                                              *)
(***************************************************************************)
\* the continuations of a handshake whose external calls all succeed
HandshakeSteps ==
    \/ \E w \in WS : turnstileDone(w, TRUE)
    \/ \E w \in WS : findActiveDone(w, TRUE)
    \/ \E w \in WS : findArchivedDone(w, TRUE)
    \/ \E w \in WS : createThreadDone(w, TRUE)
    \/ \E w \in WS : registerDone(w, TRUE)
    \/ \E w \in WS : initialMessageDone(w, TRUE)

SpecWorker ==
    /\ Init
    /\ [][ /\ UNCHANGED gwVars
           /\ \/ \E w \in WS : Reconnects(w) /\ handleWebSocket(w)
              \/ \E w \in WS : \E data \in GoodInits : cnt.init < MaxInits /\ handleInit(w, data)
              \/ HandshakeSteps
              \/ \E req \in GoodPushes : cnt.push < MaxPushes /\ handleRelayMessage(req)
              \/ \E w \in WS : handleClose(w) ]_vars

(***************************************************************************)
(* The ChatSession class driven through its own interface: one visitor     *)
(* socket on its instance, and receiveAgentMessage called on the instance  *)
(* that holds the thread registrations.                                    *)
(***************************************************************************)
ActorInits == 2
ActorSubmits == 1
ActorPushes == 1
ActorTicks == 1

\* receiveAgentMessage called on the registry instance
coordinatorRelay(req) ==
    /\ cnt' = [cnt EXCEPT !.push = @ + 1]
    /\ receiveAgentMessage(MessageCoordinator, req.threadId, req.message, req.author, fwd)
    /\ UNCHANGED <<now, expired, wsState, wsDO, registered, sessions, storThread, rateLimits, init, sends,
                   threads, posted, nextSid, relayLog, accepted>>

SpecActor ==
    /\ Init
    /\ [][ /\ UNCHANGED gwVars
           /\ \/ handleWebSocket(1)
              \/ \E data \in GoodInits : cnt.init < ActorInits /\ handleInit(1, data)
              \/ HandshakeSteps
              \/ cnt.submit < ActorSubmits /\ Len(sends) < 1 /\ handleUserMessage(1, TextHi)
              \/ \E i \in 1..Len(sends) : sendDone(i, TRUE)
              \/ \E req \in GoodPushes : cnt.push < ActorPushes /\ fwd = <<>> /\ coordinatorRelay(req)
              \/ \E i \in 1..Len(fwd) : sessionRelay(i)
              \/ handleClose(1)
              \/ \E dt \in {SESSION_TIMEOUT, SESSION_TIMEOUT + 1} :
                    cnt.tick < ActorTicks /\ Quiet /\ Tick(dt) ]_vars

(***************************************************************************)
(* One session and its rate limiter                                        *)
(***************************************************************************)
RateSubmits == 13
RateTicks == 2

SpecRate ==
    /\ Init
    /\ [][ /\ UNCHANGED gwVars
           /\ \/ handleWebSocket(1)
              \/ cnt.init < 1 /\ handleInit(1, [name |-> NameAnn, email |-> EmailAnn, page |-> "/",
                                                turnstileToken |-> "tok", sessionId |-> NoSid])
              \/ HandshakeSteps
              \/ cnt.submit < RateSubmits /\ sends = <<>> /\ handleUserMessage(1, TextHi)
              \/ \E i \in 1..Len(sends) : sendDone(i, TRUE)
              \/ \E dt \in {1, RATE_WINDOW} : cnt.tick < RateTicks /\ Quiet /\ Tick(dt) ]_vars

(***************************************************************************)
(* One session and its message history                                     *)
(***************************************************************************)
HistPushes == 52
HistSubmits == 1

SpecHistory ==
    /\ Init
    /\ [][ /\ UNCHANGED gwVars
           /\ \/ handleWebSocket(1)
              \/ cnt.init < 1 /\ handleInit(1, [name |-> NameAnn, email |-> EmailAnn, page |-> "/",
                                                turnstileToken |-> "tok", sessionId |-> NoSid])
              \/ HandshakeSteps
              \/ cnt.submit < HistSubmits /\ Settled /\ sends = <<>> /\ handleUserMessage(1, TextHi)
              \/ \E i \in 1..Len(sends) : sendDone(i, TRUE)
              \/ \E req \in GoodPushes : cnt.push < HistPushes /\ Settled /\ fwd = <<>> /\ coordinatorRelay(req)
              \/ \E i \in 1..Len(fwd) : sessionRelay(i) ]_vars

(***************************************************************************)
(* One visitor socket: handshakes, repeated with a known session id,       *)
(* visitor messages and the session timeout                                *)
(***************************************************************************)
ResumeInits == 2
ResumeSubmits == 1
ResumeTicks == 1

SpecResume ==
    /\ Init
    /\ [][ /\ UNCHANGED gwVars
           /\ \/ handleWebSocket(1)
              \/ \E data \in GoodInits : cnt.init < ResumeInits /\ handleInit(1, data)
              \/ HandshakeSteps
              \/ cnt.submit < ResumeSubmits /\ sends = <<>> /\ handleUserMessage(1, TextHi)
              \/ \E i \in 1..Len(sends) : sendDone(i, TRUE)
              \/ handleClose(1)
              \/ \E dt \in {SESSION_TIMEOUT, SESSION_TIMEOUT + 1} :
                    cnt.tick < ResumeTicks /\ Quiet /\ Tick(dt) ]_vars

(***************************************************************************)
(* One visitor socket and its `message` events: texts of every length      *)
(* class, sends to Discord that overlap, succeed or fail                    *)
(***************************************************************************)
SubmitCalls == 3
SubmitInflight == 2

\* an empty text, two ordinary ones, one of exactly 2000 characters and one of 2001
SubmitTexts == {Text("", 0), Text("a", 1), Text("b", 2), Text("m", 2000), Text("l", 2001)}

SpecSubmit ==
    /\ Init
    /\ [][ /\ UNCHANGED gwVars
           /\ \/ handleWebSocket(1)
              \/ cnt.init < 1 /\ handleInit(1, [name |-> NameAnn, email |-> EmailAnn, page |-> "/",
                                                turnstileToken |-> "tok", sessionId |-> NoSid])
              \/ HandshakeSteps
              \/ \E message \in SubmitTexts :
                    /\ cnt.submit < SubmitCalls
                    /\ Len(sends) < SubmitInflight
                    /\ handleUserMessage(1, message)
              \/ \E i \in 1..Len(sends) : \E ok \in BOOLEAN : sendDone(i, ok)
              \/ handleClose(1) ]_vars

(***************************************************************************)
(* Deliveries of agent messages: to the registry instance, to the instance *)
(* POST /relay calls and on to the instance a thread is registered for,    *)
(* for threads that are registered, not registered, or left without socket *)
(***************************************************************************)
DeliverInits == 2
DeliverPushes == 2

\* the id of a thread no session was created with
UnknownThread == <<0, 0, 99>>

\* two visitors with their own email addresses
VisitorInits ==
    {[name |-> NameAnn, email |-> EmailAnn, page |-> "/", turnstileToken |-> "tok",
      sessionId |-> NoSid],
     [name |-> NameBob, email |-> EmailBob, page |-> "/", turnstileToken |-> "tok",
      sessionId |-> NoSid]}

AnyPushes ==
    [auth : {TRUE}, threadId : ThreadIds \cup {UnknownThread}, message : {TextHi},
     author : {AgentName}, timestamp : {now}]

SpecDeliver ==
    /\ Init
    /\ [][ /\ UNCHANGED gwVars
           /\ \/ handleWebSocket(1)
              \/ \E data \in VisitorInits : cnt.init < DeliverInits /\ Quiet /\ handleInit(1, data)
              \/ HandshakeSteps
              \/ \E req \in AnyPushes : cnt.push < DeliverPushes /\ fwd = <<>> /\ coordinatorRelay(req)
              \/ \E req \in AnyPushes : cnt.push < DeliverPushes /\ fwd = <<>> /\ handleRelayMessage(req)
              \/ \E i \in 1..Len(fwd) : sessionRelay(i)
              \/ handleClose(1) ]_vars

(***************************************************************************)
(* Handshakes in a support channel that already holds threads of earlier   *)
(* sessions, open or archived, of several ages                             *)
(***************************************************************************)
ThreadInits == 2
ThreadsBefore == 2

DaySeconds == 24 * 60 * 60

\* three visitors; the address of the first is the tail of the address of the third
ThreadVisitors ==
    {[name |-> NameAnn, email |-> EmailAnn], [name |-> NameBob, email |-> EmailBob],
     [name |-> <<"C">>, email |-> <<"c", "a", "@", "x", ".", "y">>]}

\* the channel holds a thread that createThread made for visitor v, age seconds
\* ago
olderThread(v, age, archived) ==
    /\ wsState[1] = "new"
    /\ threads' = Append(threads,
                     [id |-> <<(now \div 1000) - age, now % 1000, Len(threads) + 1>>,
                      name |-> ThreadName(v.name, v.email),
                      archived |-> archived])
    /\ UNCHANGED <<now, expired, wsState, wsDO, registered, wsOut, heap, sessions, storSession, storThread,
                   rateLimits, init, sends, fwd, posted, nextSid, relayLog, accepted,
                   recorded, cnt>>

SpecThreads ==
    /\ Init
    /\ [][ /\ UNCHANGED gwVars
           /\ \/ \E v \in ThreadVisitors :
                 \E age \in {89 * DaySeconds, 90 * DaySeconds, 91 * DaySeconds} :
                 \E archived \in BOOLEAN :
                    Len(threads) < ThreadsBefore /\ olderThread(v, age, archived)
              \/ handleWebSocket(1)
              \/ \E v \in ThreadVisitors :
                    /\ cnt.init < ThreadInits
                    /\ Quiet
                    /\ handleInit(1, [name |-> v.name, email |-> v.email, page |-> "/",
                                      turnstileToken |-> "tok", sessionId |-> NoSid])
              \/ HandshakeSteps
              \/ unarchiveDone(1, TRUE) ]_vars

(***************************************************************************)
(* Handshakes with every kind of `init` payload, and a verification oracle *)
(* that accepts or rejects the token                                       *)
(***************************************************************************)
InitCalls == 2

\* addresses the format test turns away: no dot after the @, no @, a blank,
\* two @
BadEmails ==
    {<<"a", "@", "x">>,
     <<"a", "x", ".", "y">>,
     <<"a", " ", "@", "x", ".", "y">>,
     <<"a", "@", "@", "x", ".", "y">>}

AnyInits ==
    [name : {NameAnn, <<>>}, email : {EmailAnn, <<>>} \cup BadEmails, page : {"/"},
     turnstileToken : {"tok", ""}, sessionId : {NoSid} \cup IssuedSids]

SpecInit ==
    /\ Init
    /\ [][ /\ UNCHANGED gwVars
           /\ \/ \E w \in WS : Reconnects(w) /\ handleWebSocket(w)
              \/ \E w \in WS : \E data \in AnyInits : cnt.init < InitCalls /\ handleInit(w, data)
              \/ \E w \in WS : turnstileDone(w, FALSE)
              \/ HandshakeSteps
              \/ \E w \in WS : handleClose(w) ]_vars

(***************************************************************************)
(* The two workers together: the gateway receives events of the support    *)
(* channel's thread and pushes them to POST /relay of the main worker,     *)
(* which a visitor is connected to                                         *)
(***************************************************************************)
RelayFrames == 4

\* the fetch of handleMessageCreate that is i-th under way reaches the main
\* worker; it carries Authorization: Bearer <BOT_RELAY_SECRET>
relayArrives(i) ==
    /\ i \in 1..Len(gwRelay)
    /\ handleRelayMessage([auth |-> TRUE, threadId |-> gwRelay[i].threadId,
                           message |-> gwRelay[i].message, author |-> gwRelay[i].author,
                           timestamp |-> gwRelay[i].timestamp])
    /\ gwRelay' = RemoveAt(gwRelay, i)
    /\ UNCHANGED <<gw, gwRemote, gwGhost>>

SpecRelay ==
    /\ Init
    /\ [][ \/ (\E k \in 1..Len(gw.socks) : gwOpen(k)) /\ UNCHANGED sessVars
           \/ /\ \E k \in 1..Len(gw.socks) : \E payload \in RemoteFrames(k) :
                    /\ gwGhost.frames < RelayFrames
                    /\ payload.op \in {OP_HELLO, OP_DISPATCH}
                    /\ gwMessage(k, payload)
              /\ UNCHANGED sessVars
           \/ \E i \in 1..Len(gwRelay) : relayArrives(i)
           \/ handleWebSocket(1) /\ UNCHANGED gwVars
           \/ /\ cnt.init < 1
              /\ handleInit(1, [name |-> NameAnn, email |-> EmailAnn, page |-> "/",
                                turnstileToken |-> "tok", sessionId |-> NoSid])
              /\ UNCHANGED gwVars
           \/ HandshakeSteps /\ UNCHANGED gwVars ]_vars

(***************************************************************************)
(* Visitors connected at the same time, each handshake free to name any    *)
(* session id issued so far                                                *)
(***************************************************************************)
AttachInits == 3

SpecAttach ==
    /\ Init
    /\ [][ /\ UNCHANGED gwVars
           /\ \/ \E w \in WS : handleWebSocket(w)
              \/ \E w \in WS : \E data \in GoodInits :
                    cnt.init < AttachInits /\ Settled /\ handleInit(w, data)
              \/ HandshakeSteps
              \/ \E w \in WS : handleClose(w) ]_vars

(***************************************************************************)
(* The thread registry of the coordinator instances: any sequence of       *)
(* /register calls, and relay pushes that look threads up                  *)
(***************************************************************************)
RegistryCalls == 3
RegistryPushes == 1

RegistryThreads == {<<0, 0, 1>>, <<0, 0, 2>>}

RegistryRelays ==
    [auth : {TRUE}, threadId : RegistryThreads, message : {TextHi}, author : {AgentName},
     timestamp : {now}]

SpecRegistry ==
    /\ Init
    /\ [][ /\ UNCHANGED gwVars
           /\ \/ \E d \in {MessageCoordinator, RelayCoordinator} :
                 \E threadId \in RegistryThreads : \E doId \in {UuidName(i) : i \in WS} :
                    Len(registered) < RegistryCalls /\ register(d, threadId, doId)
              \/ \E req \in RegistryRelays : cnt.push < RegistryPushes /\ coordinatorRelay(req)
              \/ \E req \in RegistryRelays : cnt.push < RegistryPushes /\ handleRelayMessage(req)
              \/ \E i \in 1..Len(fwd) : sessionRelay(i) ]_vars

(***************************************************************************)
(* The gateway object under any sequence of inbound frames: every opcode   *)
(* it handles, in any order, with any sequence number                      *)
(***************************************************************************)
FrameCalls == 4
FrameSeqs == 2
FrameBeats == 1


\* a message an agent wrote in the thread
AgentSays ==
    [author |-> [bot |-> FALSE, username |-> AgentName], content |-> TextHi,
     channel_id |-> Channel]

AnyFrames ==
    {Frame(OP_HELLO, Null, "", [heartbeat_interval |-> ms]) : ms \in {HEARTBEAT_MS, 45000}}
    \cup {Frame(OP_DISPATCH, n, "READY", [session_id |-> RemoteSessionId]) : n \in 1..FrameSeqs}
    \cup {Frame(OP_DISPATCH, n, "RESUMED", NoData) : n \in 1..FrameSeqs}
    \cup {Frame(OP_DISPATCH, n, "MESSAGE_CREATE", AgentSays) : n \in 1..FrameSeqs}
    \cup {Frame(op, Null, "", NoData) : op \in {OP_HEARTBEAT_ACK, OP_RECONNECT, OP_INVALID_SESSION}}

SpecFrames ==
    /\ Init
    /\ [][ /\ UNCHANGED sessVars
           /\ \/ \E k \in 1..Len(gw.socks) : gwOpen(k)
              \/ \E k \in 1..Len(gw.socks) : \E payload \in AnyFrames :
                    gwGhost.frames < FrameCalls /\ gwFrame(k, payload)
              \/ gwGhost.beats < FrameBeats /\ gwHeartbeat
              \/ \E k \in 1..Len(gw.socks) : gwClose(k)
              \/ \E i \in 1..Len(gw.timers) : gwTimeout(i) ]_vars

(***************************************************************************)
(* The gateway and its relay pushes: dispatches of every kind arrive, the  *)
(* fetch of a push is answered, refused, or fails                          *)
(***************************************************************************)
PushFrames == 6

\* the fetch to /relay of push i has settled: a response that is not ok and a
\* rejected fetch are logged, nothing else follows
relayDone(i, ok) ==
    /\ i \in 1..Len(gwRelay)
    /\ gwRelay' = RemoveAt(gwRelay, i)
    /\ UNCHANGED <<gw, gwRemote, gwGhost>>

SpecPush ==
    /\ Init
    /\ [][ /\ UNCHANGED sessVars
           /\ \/ \E k \in 1..Len(gw.socks) : gwOpen(k)
              \/ \E k \in 1..Len(gw.socks) : \E payload \in RemoteFrames(k) :
                    gwGhost.frames < PushFrames /\ gwMessage(k, payload)
              \/ \E i \in 1..Len(gwRelay) : \E ok \in BOOLEAN : relayDone(i, ok)
              \/ \E k \in 1..Len(gw.socks) : gwGhost.closes < MaxCloses /\ gwClose(k)
              \/ \E i \in 1..Len(gw.timers) : gwTimeout(i) ]_vars

(***************************************************************************)
(* POST /relay called by anyone: with the secret, without a header, with   *)
(* headers that resemble the right one; a visitor is connected             *)
(***************************************************************************)
AuthCalls == 2

AuthHeaders ==
    {NoHeader, "Bearer s3cret", "Bearer s3cre", "Bearer s3cret ", "bearer s3cret",
     "s3cret", "Bearer ", ""}

\* complete pushes for the known threads under every header
AuthPushes ==
    {[auth |-> Authorized(h), header |-> h, threadId |-> t, message |-> TextHi,
      author |-> AgentName, timestamp |-> now] : h \in AuthHeaders, t \in ThreadIds}

SpecAuth ==
    /\ Init
    /\ [][ /\ UNCHANGED gwVars
           /\ \/ handleWebSocket(1)
              \/ cnt.init < 1 /\ handleInit(1, [name |-> NameAnn, email |-> EmailAnn, page |-> "/",
                                                turnstileToken |-> "tok", sessionId |-> NoSid])
              \/ HandshakeSteps
              \/ \E req \in AuthPushes : cnt.push < AuthCalls /\ handleRelayMessage(req)
              \/ \E i \in 1..Len(fwd) : sessionRelay(i)
              \/ handleClose(1) ]_vars

(***************************************************************************)
(* POST /relay called with the secret and a body in which any field may be *)
(* absent; a visitor is connected                                          *)
(***************************************************************************)
FieldCalls == 2

\* an absent timestamp
NoTimestamp == -1

FieldPushes ==
    [auth : {TRUE}, threadId : ThreadIds \cup {NoThread}, message : {TextHi, Text("", 0)},
     author : {AgentName, <<>>}, timestamp : {now, NoTimestamp}]

SpecFields ==
    /\ Init
    /\ [][ /\ UNCHANGED gwVars
           /\ \/ handleWebSocket(1)
              \/ cnt.init < 1 /\ handleInit(1, [name |-> NameAnn, email |-> EmailAnn, page |-> "/",
                                                turnstileToken |-> "tok", sessionId |-> NoSid])
              \/ HandshakeSteps
              \/ \E req \in FieldPushes : cnt.push < FieldCalls /\ handleRelayMessage(req)
              \/ \E i \in 1..Len(fwd) : sessionRelay(i)
              \/ handleClose(1) ]_vars

(***************************************************************************)
(* Visitors of one client address: every upgrade request carries the same  *)
(* CF-Connecting-IP header, every `init` asks for a new session            *)
(***************************************************************************)
QuotaInits == 4

SpecQuota ==
    /\ Init
    /\ [][ /\ UNCHANGED gwVars
           /\ \/ \E w \in WS : handleWebSocket(w)
              \/ \E w \in WS :
                    /\ cnt.init < QuotaInits
                    /\ Settled
                    /\ handleInit(w, [name |-> NameAnn, email |-> EmailAnn, page |-> "/",
                                      turnstileToken |-> "tok", sessionId |-> NoSid])
              \/ HandshakeSteps
              \/ \E w \in WS : handleClose(w) ]_vars

(***************************************************************************)
(* Handshakes whose external calls may each fail: the token check, the     *)
(* thread search, unarchive and create, the coordinator's /register and    *)
(* the summary post; one `init` per connection                             *)
(***************************************************************************)
FailInits == 2

SpecFailures ==
    /\ Init
    /\ [][ /\ UNCHANGED gwVars
           /\ \/ \E archived \in BOOLEAN :
                    /\ Len(threads) < 1
                    /\ olderThread([name |-> NameAnn, email |-> EmailAnn], DaySeconds, archived)
              \/ \E w \in WS : Reconnects(w) /\ handleWebSocket(w)
              \/ \E w \in WS :
                    /\ cnt.init < FailInits
                    /\ init[w].result = "none"
                    /\ handleInit(w, [name |-> NameAnn, email |-> EmailAnn, page |-> "/",
                                      turnstileToken |-> "tok", sessionId |-> NoSid])
              \/ \E w \in WS : \E ok \in BOOLEAN : turnstileDone(w, ok)
              \/ \E w \in WS : \E ok \in BOOLEAN : findActiveDone(w, ok)
              \/ \E w \in WS : \E ok \in BOOLEAN : findArchivedDone(w, ok)
              \/ \E w \in WS : \E ok \in BOOLEAN : unarchiveDone(w, ok)
              \/ \E w \in WS : \E ok \in BOOLEAN : createThreadDone(w, ok)
              \/ \E w \in WS : \E ok \in BOOLEAN : registerDone(w, ok)
              \/ \E w \in WS : \E ok \in BOOLEAN : initialMessageDone(w, ok)
              \/ \E w \in WS : handleClose(w) ]_vars

(***************************************************************************)
(* The two workers and the thread between them: what the main worker posts *)
(* with its bot token comes back to the gateway as a MESSAGE_CREATE event  *)
(* whose author is a bot; an agent writes in the thread as well            *)
(***************************************************************************)
EchoFrames == 4
EchoSubmits == 1

VisitorText == Text("v", 1)

\* the event the remote platform emits for a message posted through the REST
\* API with a bot token
EchoOf(post) ==
    [author |-> [bot |-> TRUE, username |-> <<"b", "o", "t">>],
     content |-> IF post.kind = "initial" THEN Text("summary", 7) ELSE post.message,
     channel_id |-> post.threadId]

SpecEcho ==
    /\ Init
    /\ [][ \/ (\E k \in 1..Len(gw.socks) : gwOpen(k)) /\ UNCHANGED sessVars
           \/ /\ \E k \in 1..Len(gw.socks) : \E payload \in RemoteFrames(k) :
                    /\ gwGhost.frames < EchoFrames
                    /\ payload.op = OP_HELLO \/ (payload.op = OP_DISPATCH /\ payload.t = "READY")
                    /\ gwMessage(k, payload)
              /\ UNCHANGED sessVars
           \/ /\ \E k \in 1..Len(gw.socks) : \E j \in 1..Len(posted) :
                    /\ gwGhost.frames < EchoFrames
                    /\ gwRemote.phase[k] = "live"
                    /\ gwFrame(k, Frame(OP_DISPATCH, gwRemote.seq + 1, "MESSAGE_CREATE",
                                        EchoOf(posted[j])))
              /\ UNCHANGED sessVars
           \/ /\ \E k \in 1..Len(gw.socks) :
                    /\ gwGhost.frames < EchoFrames
                    /\ gwRemote.phase[k] = "live"
                    /\ threads # <<>>
                    /\ gwFrame(k, Frame(OP_DISPATCH, gwRemote.seq + 1, "MESSAGE_CREATE",
                                        AgentSays))
              /\ UNCHANGED sessVars
           \/ \E i \in 1..Len(gwRelay) : relayArrives(i)
           \/ handleWebSocket(1) /\ UNCHANGED gwVars
           \/ /\ cnt.init < 1
              /\ handleInit(1, [name |-> NameAnn, email |-> EmailAnn, page |-> "/",
                                turnstileToken |-> "tok", sessionId |-> NoSid])
              /\ UNCHANGED gwVars
           \/ HandshakeSteps /\ UNCHANGED gwVars
           \/ /\ cnt.submit < EchoSubmits /\ Settled /\ sends = <<>>
              /\ handleUserMessage(1, VisitorText)
              /\ UNCHANGED gwVars
           \/ (\E i \in 1..Len(sends) : sendDone(i, TRUE)) /\ UNCHANGED gwVars ]_vars

(***************************************************************************)
(* The gateway under the scheduling the runtime provides: a pending timer  *)
(* fires, a socket event that is due is delivered, and the remote platform *)
(* opens a requested connection and greets it with HELLO.                  *)
(***************************************************************************)
timerFires ==
    \E i \in 1..MaxSocks : i <= Len(gw.timers) /\ Len(gw.socks) < MaxSocks /\ gwTimeout(i)

socketOpens == \E k \in 1..MaxSocks : k <= Len(gw.socks) /\ gwOpen(k)

socketCloses ==
    \E k \in 1..MaxSocks : k <= Len(gw.socks) /\ gw.socks[k] = "closing" /\ gwClose(k)

remoteGreets ==
    \E k \in 1..MaxSocks :
        /\ k <= Len(gw.socks)
        /\ gwGhost.frames < MaxFrames
        /\ Len(gw.socks) < MaxSocks
        /\ \E payload \in RemoteFrames(k) : payload.op = OP_HELLO /\ gwMessage(k, payload)

FairGateway ==
    /\ SpecGateway
    /\ WF_vars(timerFires /\ UNCHANGED sessVars)
    /\ WF_vars(socketOpens /\ UNCHANGED sessVars)
    /\ WF_vars(socketCloses /\ UNCHANGED sessVars)
    /\ WF_vars(remoteGreets /\ UNCHANGED sessVars)

(***************************************************************************)
(* Properties                                                              *)
(***************************************************************************)
AttachedSession(w) == heap[sessions[wsDO[w]][MapGet(sessions[wsDO[w]], w)].ref]

HasMessageEnv(w, message, author) ==
    \E k \in 1..Len(wsOut[w]) :
        /\ wsOut[w][k].type = "message"
        /\ wsOut[w][k].data.message = message
        /\ wsOut[w][k].data.author = author

HasReadyEnv(w, sid) ==
    \E k \in 1..Len(wsOut[w]) :
        wsOut[w][k].type = "ready" /\ wsOut[w][k].data.sessionId = sid

HasErrorEnv(w, message) ==
    \E k \in 1..Len(wsOut[w]) :
        wsOut[w][k].type = "error" /\ wsOut[w][k].data.message = message

InHistory(history, message, author) ==
    \E k \in 1..Len(history) :
        history[k].message = message /\ history[k].author = author

\* C1: once POST /relay has answered an authenticated push for thread T, every
\* socket that was ACTIVE on T (handshake completed, T registered with the
\* coordinator) and is still open has received the message as a `message`
\* envelope, and the message is in that session's history.
C1_RelayDelivered ==
    \A i \in 1..Len(relayLog) :
        (relayLog[i].status = 200 /\ fwd = <<>>) =>
            \A w \in relayLog[i].active :
                (/\ wsState[w] = "open"
                 /\ MapHas(sessions[wsDO[w]], w)
                 /\ Has(storThread[MessageCoordinator], relayLog[i].req.threadId)) =>
                    /\ HasMessageEnv(w, relayLog[i].req.message, relayLog[i].req.author)
                    /\ InHistory(AttachedSession(w).messageHistory,
                                 relayLog[i].req.message, relayLog[i].req.author)

\* C2: a handshake that supplies the id of a stored session whose lastActivity
\* is less than an hour old ends re-attached to that session: `ready` carries
\* the same session id and no new session is created.
C2_ReconnectResumes ==
    \A w \in WS :
        (/\ init[w].pc = "idle"
         /\ init[w].result \in {"created", "restored"}
         /\ init[w].data.sessionId # NoSid
         /\ init[w].stored
         /\ init[w].age < SESSION_TIMEOUT) =>
            /\ init[w].result = "restored"
            /\ init[w].resultSid = init[w].data.sessionId
            /\ HasReadyEnv(w, init[w].data.sessionId)

\* C3 as claimed: a session whose lastActivity has once been more than an hour
\* in the past is never re-attached by a later handshake.
C3_ExpiredIsTerminal ==
    [][\A w \in WS :
          (init[w].pc = "turnstile" /\ init'[w].result = "restored") =>
              init'[w].resultSid \notin expired]_vars

\* C3 as amended: a handshake that supplies the id of a stored session whose
\* lastActivity is, when the session is looked up, more than an hour in the
\* past is not re-attached to it; it goes on to create a session under a new
\* session id.
C3_ExpiredResumeRejected ==
    \A w \in WS :
        (init[w].data.sessionId # NoSid /\ init[w].stored /\ init[w].age > SESSION_TIMEOUT) =>
            /\ init[w].result # "restored"
            /\ init[w].sessionId \notin {NoSid, init[w].data.sessionId}
            /\ init[w].result = "created" =>
                  /\ init[w].resultSid = init[w].sessionId
                  /\ HasReadyEnv(w, init[w].sessionId) \/ wsState[w] # "open"

C3_Witness ==
    \E w \in WS :
        /\ init[w].data.sessionId # NoSid
        /\ init[w].stored
        /\ init[w].age > SESSION_TIMEOUT
        /\ init[w].result = "created"
        /\ HasReadyEnv(w, init[w].sessionId)

\* the rate window the accepted submits of a session have opened last, and how
\* many of them fall into it: a submit later than 60 s after the start of the
\* window opens the next one
RECURSIVE WindowOf(_, _)
WindowOf(times, k) ==
    IF k = 0 THEN [start |-> 0, count |-> 0]
    ELSE LET p == WindowOf(times, k - 1)
         IN  IF p.count = 0 \/ times[k] > p.start + 60000
             THEN [start |-> times[k], count |-> 1]
             ELSE [start |-> p.start, count |-> p.count + 1]

AcceptedOf(sid) == IF Has(accepted, sid) THEN accepted[sid] ELSE <<>>

C5_SlidingWindow ==
    \A sid \in DOMAIN accepted :
        Cardinality({i \in 1..Len(accepted[sid]) : accepted[sid][i] > now - 60000})
            <= 10

\* C6: a message delivered for the thread of a stored session that has no
\* socket attached and is within its hour of grace is appended to the stored
\* history of that session.
C6_DetachedRecorded ==
    [][\A i \in 1..Len(fwd) : \A sid \in IssuedSids :
          LET d == fwd[i].to IN
          (/\ sessionRelay(i)
           /\ Has(storSession[d], sid)
           /\ storSession[d][sid].threadId = fwd[i].threadId
           /\ now - storSession[d][sid].lastActivity <= SESSION_TIMEOUT
           /\ \A k \in 1..Len(sessions[d]) : heap[sessions[d][k].ref].sessionId # sid) =>
              LET history == storSession'[d][sid].messageHistory
              IN  /\ history # <<>>
                  /\ history[Len(history)] = [message |-> fwd[i].message,
                                              author |-> fwd[i].author,
                                              timestamp |-> now]]_vars

\* C7: the gateway is never left without a transport that is open or opening
\* and without anything pending (a reconnect timer, the close event of a
\* socket it closed) that leads to one.
C7_NeverStranded ==
    \/ \E k \in 1..Len(gw.socks) : gw.socks[k] \in {"connecting", "open", "closing"}
    \/ gw.timers # <<>>

\* C8: after READY with session id S and frames up to sequence number n, a
\* loss of the transport is followed by a connection on which the client
\* answers HELLO with RESUME{session_id: S, seq: n} and sends no IDENTIFY.
C8_ResumeAfterClose ==
    [](gwGhost.lost # <<>> =>
          <>(\E i \in 1..Len(gw.sent) :
                /\ gw.sent[i].op = OP_RESUME
                /\ gw.sent[i].sock > gwGhost.lost[1].sock
                /\ gw.sent[i].d.session_id = gwGhost.lost[1].session_id
                /\ gw.sent[i].d.seq = gwGhost.lost[1].seq
                /\ \A j \in 1..Len(gw.sent) :
                      gw.sent[j].sock = gw.sent[i].sock => gw.sent[j].op # OP_IDENTIFY))

\* C9: the client never sends a third heartbeat in a row on a connection that
\* has acknowledged none of them: an unacknowledged heartbeat, and one more
\* interval of tolerance, make it stop the heartbeat and reconnect.
C9_AckTimeout == gwGhost.unacked <= 2

\* the newest 50 messages of a log
Newest(log) ==
    IF Len(log) <= 50 THEN log ELSE SubSeq(log, Len(log) - 50 + 1, Len(log))

RecordedOf(sid) == IF Has(recorded, sid) THEN recorded[sid] ELSE <<>>

LastIsError(w) ==
    /\ Len(wsOut'[w]) = Len(wsOut[w]) + 1
    /\ wsOut'[w][Len(wsOut'[w])].type = "error"
    /\ \A k \in 1..Len(wsOut[w]) : wsOut'[w][k] = wsOut[w][k]

\* C11: a `message` whose text is empty or longer than 2000 characters is
\* answered with an error envelope and changes neither the history nor the
\* messageCount of the session, stored or attached, and hands nothing to
\* discord.sendMessage; a text of exactly 2000 characters is handed to
\* discord.sendMessage.
C11_InvalidSubmit ==
    [][\A message \in SubmitTexts :
          (handleUserMessage(1, message) /\ MapHas(sessions[wsDO[1]], 1)) =>
              /\ (message.len = 0 \/ message.len > 2000) =>
                    /\ LastIsError(1)
                    /\ UNCHANGED <<heap, storSession, sends, posted, recorded, accepted>>
              /\ message.len = 2000 =>
                    /\ sends' = Append(sends,
                           [ws |-> 1,
                            ref |-> sessions[wsDO[1]][MapGet(sessions[wsDO[1]], 1)].ref,
                            message |-> message])
                    /\ UNCHANGED wsOut]_vars

C11_Witness ==
    /\ HasErrorEnv(1, "Invalid message")
    /\ HasErrorEnv(1, "Message too long (max 2000 characters)")
    /\ \E k \in 1..Len(posted) : posted[k].kind = "visitor" /\ posted[k].message.len = 2000
    /\ MapHas(sessions[wsDO[1]], 1)
    /\ AttachedSession(1).messageCount = 1
    /\ Len(AttachedSession(1).messageHistory) = 1

\* instance d holds a socket whose session is bound to threadId
AttachedFor(d, threadId) ==
    \E k \in 1..Len(sessions[d]) : heap[sessions[d][k].ref].threadId = threadId

\* C12: receiveAgentMessage for a thread that the instance called has no
\* registration for and no attached session for changes nothing: no socket
\* receives an envelope, no session, stored or attached, changes, no
\* registration changes and nothing is forwarded; this holds for every such
\* call, however often it is repeated.
C12_UnownedDeliveryNoOp ==
    [][/\ \A req \in AnyPushes :
             (/\ coordinatorRelay(req)
              /\ ~Has(storThread[MessageCoordinator], req.threadId)
              /\ ~AttachedFor(MessageCoordinator, req.threadId)) =>
                 UNCHANGED <<wsOut, heap, storSession, storThread, recorded, fwd, sessions>>
       /\ \A req \in AnyPushes :
             (/\ handleRelayMessage(req)
              /\ ~Has(storThread[RelayCoordinator], req.threadId)
              /\ ~AttachedFor(RelayCoordinator, req.threadId)) =>
                 UNCHANGED <<wsOut, heap, storSession, storThread, recorded, fwd, sessions>>
       /\ \A i \in 1..Len(fwd) :
             (sessionRelay(i) /\ ~AttachedFor(fwd[i].to, fwd[i].threadId)) =>
                 UNCHANGED <<wsOut, heap, storSession, storThread, recorded, sessions>>]_vars

C12_Witness ==
    /\ cnt.push = DeliverPushes
    /\ fwd = <<>>
    /\ \E i \in 1..Len(relayLog) :
          relayLog[i].req.threadId = UnknownThread /\ relayLog[i].status = 200
    /\ Len(threads) = 2
    /\ Has(storThread[MessageCoordinator], threads[1].id)
    /\ MapHas(sessions[wsDO[1]], 1)
    /\ AttachedSession(1).threadId = threads[2].id
    /\ recorded = <<>>
    /\ \A k \in 1..Len(wsOut[1]) : wsOut[1][k].type # "message"

\* the thread was created for this e-mail address
ThreadOf(thread, email) ==
    \E v \in ThreadVisitors : v.email = email /\ thread.name = ThreadName(v.name, email)

\* the age of the thread is less than days days
Younger(thread, days) ==
    (now - thread.id[2]) \div 1000 - thread.id[1] < days * 24 * 60 * 60

\* C13: when findOrCreateThread returns in a handshake for an e-mail address,
\* then, if the channel holds a thread of that address younger than 90 days,
\* the id returned is that of such a thread and no thread is created; if it
\* holds threads of that address and all of them are 91 days old or older, a
\* new thread is created and its id returned.
C13_FindOrCreate ==
    [][\A w \in WS :
          (init[w].pc \in {"findActive", "unarchive", "create"} /\ init'[w].pc = "register") =>
              LET email == init[w].data.email
                  own == {i \in 1..Len(threads) : ThreadOf(threads[i], email)}
              IN  /\ (\E i \in own : Younger(threads[i], 90)) =>
                        /\ Len(threads') = Len(threads)
                        /\ \E i \in own : /\ Younger(threads[i], 90)
                                          /\ init'[w].threadId = threads[i].id
                  /\ (own # {} /\ \A i \in own : ~Younger(threads[i], 91)) =>
                        /\ Len(threads') = Len(threads) + 1
                        /\ init'[w].threadId = threads'[Len(threads')].id
                        /\ \A i \in 1..Len(threads) : threads[i].id # init'[w].threadId]_vars

\* C14: the identity summary that opens a session is posted to a thread at
\* most once, when the thread is created; a session that reuses the thread
\* does not post it again.
C14_SummaryOnce ==
    \A t \in ThreadIds :
        Cardinality({k \in 1..Len(posted) :
                        posted[k].kind = "initial" /\ posted[k].threadId = t}) <= 1

\* the handshake on socket w ends here with an error envelope (sent unless the
\* visitor has closed the socket meanwhile) and the close of the socket, and
\* leaves sessions, storage, registrations and threads alone
Refused(w) ==
    /\ IF wsState[w] = "open" THEN LastIsError(w) ELSE UNCHANGED wsOut
    /\ wsState'[w] \in {"closing", "closed"}
    /\ init'[w].pc = "idle"
    /\ init'[w].result = "error"
    /\ UNCHANGED <<heap, sessions, storSession, storThread, threads, posted, nextSid>>

\* C15: an `init` whose name or email is empty or whose email is not of the
\* form local@domain.tld, and an `init` whose token the verification rejects,
\* is answered with an error envelope and the close of the socket; no session
\* is created or restored, no thread is searched or created, no registration
\* is written.
C15_HandshakeRefused ==
    [][\A w \in WS :
          /\ \A data \in AnyInits :
                (/\ handleInit(w, data)
                 /\ (data.name = <<>> \/ data.email = <<>> \/ data.email \in BadEmails)) =>
                    Refused(w)
          /\ (init[w].pc = "turnstile" /\ turnstileDone(w, FALSE)) => Refused(w)]_vars

C15_Witness ==
    /\ HasErrorEnv(1, "Invalid email format")
    /\ HasErrorEnv(2, "Failed to verify CAPTCHA. Please try again.")
    /\ wsState = <<"closed", "closed">>
    /\ heap = <<>>
    /\ threads = <<>>
    /\ nextSid = 0

C18_OneConnection ==
    \A v, w \in WS :
        (/\ v # w
         /\ wsState[v] = "open" /\ MapHas(sessions[wsDO[v]], v)
         /\ wsState[w] = "open" /\ MapHas(sessions[wsDO[w]], w)) =>
            AttachedSession(v).sessionId # AttachedSession(w).sessionId

C18_Witness ==
    /\ wsState = <<"open", "open">>
    /\ MapHas(sessions[wsDO[1]], 1)
    /\ init[1].result = "created"
    /\ init[2].pc = "idle"
    /\ init[2].result = "created"
    /\ init[2].data.sessionId = AttachedSession(1).sessionId
    /\ init[2].stored
    /\ MapHas(sessions[wsDO[2]], 2)

\* no socket is bound to the session: its connection has been lost
Detached(sessionId) ==
    \A v \in WS :
        ~(/\ wsDO[v] \in DOs
          /\ MapHas(sessions[wsDO[v]], v)
          /\ AttachedSession(v).sessionId = sessionId)

\* C19: the expiry clock starts at detach: a handshake that names a stored
\* session whose connection was lost less than an hour ago resumes it, it does
\* not go on to create a session.  A session's lastActivity is never later than
\* its detach, so a lookup less than an hour after lastActivity is less than an
\* hour after the detach.
C19_ResumableAfterDetach ==
    [][\A w \in WS :
          LET sessionId == init[w].data.sessionId IN
          (/\ init[w].pc = "turnstile"
           /\ sessionId # NoSid
           /\ StoredAnywhere(sessionId)
           /\ Detached(sessionId)
           /\ StoredAge(sessionId) < SESSION_TIMEOUT) =>
              init'[w].pc # "findActive"]_vars

\* C20: the close or error of a visitor socket removes only the binding of that
\* socket: every stored session record, with all its fields, the session
\* objects, the coordinator's thread registry and the threads themselves are
\* what they were, and the bindings of the other sockets stay.
C20_DetachKeepsRecord ==
    [][\A w \in WS :
          (wsState[w] \in {"open", "closing"} /\ wsState'[w] = "closed") =>
              /\ storSession' = storSession
              /\ storThread' = storThread
              /\ threads' = threads
              /\ heap' = heap
              /\ sessions' = [sessions EXCEPT ![wsDO[w]] = MapDelete(@, w)]]_vars

\* the socket of a session that has recorded a message has closed: the binding
\* is gone, the record and the thread's registration are there
C20_Witness ==
    /\ wsState[1] = "closed"
    /\ init[1].result = "created"
    /\ ~MapHas(sessions[wsDO[1]], 1)
    /\ Has(storSession[wsDO[1]], init[1].resultSid)
    /\ storSession[wsDO[1]][init[1].resultSid].messageCount >= 1
    /\ storSession[wsDO[1]][init[1].resultSid].messageHistory # <<>>
    /\ Has(storThread[MessageCoordinator], init[1].threadId)

\* the owner named by the most recent /register request for threadId that
\* instance d has handled
RECURSIVE LastRegistered(_, _, _)
LastRegistered(d, threadId, k) ==
    IF k = 0 THEN NotFound
    ELSE IF registered[k].on = d /\ registered[k].threadId = threadId
    THEN registered[k].doId
    ELSE LastRegistered(d, threadId, k - 1)

\* C21: register is an idempotent upsert, the last writer wins, entries are
\* never deleted: after any sequence of register calls an instance resolves a
\* thread to the owner named by the most recent register of that thread it has
\* handled (so registering the same pair again changes nothing), and to
\* NotFound if there was none.
C21_RegistryUpsert ==
    \A d \in DOs : \A threadId \in RegistryThreads :
        resolve(d, threadId) = LastRegistered(d, threadId, Len(registered))

\* a thread has been registered for one owner, then for another and then for
\* the other again; a push for it has been forwarded to the last
C21_Witness ==
    /\ Len(registered) = 3
    /\ \A k \in 1..3 : registered[k].on = MessageCoordinator /\ registered[k].threadId = <<0, 0, 1>>
    /\ registered[1].doId = UuidName(2)
    /\ registered[2].doId = UuidName(1)
    /\ registered[3].doId = UuidName(2)
    /\ resolve(MessageCoordinator, <<0, 0, 1>>) = UuidName(2)
    /\ Len(fwd) = 1 /\ fwd[1].to = UuidName(2)

\* the thread of the session socket w is bound to, and the sockets bound to a
\* session of a thread, given the instances' session maps and the objects
ThreadOfSocket(map, objects, w) == objects[map[wsDO[w]][MapGet(map[wsDO[w]], w)].ref].threadId
BoundTo(map, objects, threadId) ==
    {v \in WS : /\ wsDO[v] \in DOs
                /\ MapHas(map[wsDO[v]], v)
                /\ ThreadOfSocket(map, objects, v) = threadId}

\* C22: when a handshake ends with its socket ACTIVE, by creating a session or
\* by resuming one, and that socket is the only one bound to the session's
\* thread, the registry resolves the thread to the socket's instance.
C22_ActiveRegistered ==
    [][\A w \in WS :
          (/\ init[w].pc # "idle"
           /\ init'[w].pc = "idle"
           /\ init'[w].result \in {"created", "restored"}
           /\ wsState'[w] = "open"
           /\ MapHas(sessions'[wsDO[w]], w)
           /\ BoundTo(sessions', heap', ThreadOfSocket(sessions', heap', w)) = {w}) =>
              LET threadId == ThreadOfSocket(sessions', heap', w) IN
              /\ Has(storThread'[MessageCoordinator], threadId)
              /\ storThread'[MessageCoordinator][threadId] = wsDO[w]]_vars

\* the payload the step has written on socket k, if it has written one
Wrote(k, op) ==
    /\ Len(gw'.sent) = Len(gw.sent) + 1
    /\ gw'.sent[Len(gw'.sent)].sock = k
    /\ gw'.sent[Len(gw'.sent)].op = op

\* C23: INVALID_SESSION clears sessionId and sequenceNumber, and the next HELLO
\* handled after it (no READY in between) is answered with IDENTIFY, not RESUME.
C23_InvalidSessionIdentifies ==
    [][\A k \in 1..Len(gw.socks) : \A payload \in AnyFrames :
          gwFrame(k, payload) =>
              /\ payload.op = OP_INVALID_SESSION =>
                    gw'.sessionId = NullId /\ gw'.sequenceNumber = Null
              /\ (gw.sessionId = NullId /\ gw'.sessionId # NullId) =>
                    payload.op = OP_DISPATCH /\ payload.t = "READY"
              /\ (payload.op = OP_HELLO /\ gw.sessionId = NullId) =>
                    Wrote(k, OP_IDENTIFY)]_vars

\* a session that was known has been dropped by INVALID_SESSION, and the HELLO
\* handled after it has been answered with IDENTIFY
C23_Witness ==
    /\ gwGhost.dropped # <<>>
    /\ gwGhost.dropped[1].session_id = RemoteSessionId
    /\ gwGhost.frames = 4
    /\ gw.sessionId = NullId /\ gw.sequenceNumber = Null
    /\ Len(gw.sent) = 2
    /\ gw.sent[1].op = OP_IDENTIFY /\ gw.sent[2].op = OP_IDENTIFY
    /\ gw.heartbeatInterval = 45000

\* C24: every HELLO handled starts the heartbeat at the interval it declares
\* and is answered with exactly one payload: RESUME, carrying the session id
\* and the sequence number, if both are known when it is handled, IDENTIFY
\* otherwise.
C24_HelloAnswered ==
    [][\A k \in 1..Len(gw.socks) : \A payload \in AnyFrames :
          (payload.op = OP_HELLO /\ gwFrame(k, payload)) =>
              /\ gw'.heartbeatInterval = payload.d.heartbeat_interval
              /\ IF gw.sessionId # NullId /\ gw.sequenceNumber # Null
                 THEN /\ Wrote(k, OP_RESUME)
                      /\ gw'.sent[Len(gw'.sent)].d =
                            [session_id |-> gw.sessionId, seq |-> gw.sequenceNumber]
                 ELSE Wrote(k, OP_IDENTIFY)]_vars

\* a first HELLO was answered with IDENTIFY; a HELLO declaring another interval,
\* handled with the session and a sequence number known, with RESUME; the
\* heartbeat it started has fired
C24_Witness ==
    /\ Len(gw.sent) = 3
    /\ gw.sent[3].op = OP_HEARTBEAT
    /\ gw.sent[1].op = OP_IDENTIFY
    /\ gw.sent[2].op = OP_RESUME
    /\ gw.sent[2].d = [session_id |-> RemoteSessionId, seq |-> 2]
    /\ gw.heartbeatInterval = 45000
    /\ gwGhost.beats = 1

\* C25: while a remote session is known, no inbound frame other than the READY
\* that starts a session or an INVALID_SESSION makes the stored sequence number
\* smaller or unknown; RESUMED in particular does not reset it.
C25_SequenceMonotone ==
    [][\A k \in 1..Len(gw.socks) : \A payload \in AnyFrames :
          (/\ gwFrame(k, payload)
           /\ gw.sessionId # NullId
           /\ gw.sequenceNumber # Null
           /\ payload.op # OP_INVALID_SESSION
           /\ ~(payload.op = OP_DISPATCH /\ payload.t = "READY")) =>
              /\ gw'.sequenceNumber # Null
              /\ gw'.sequenceNumber >= gw.sequenceNumber]_vars

\* the frame is a new-message event written by someone other than the bot,
\* with content
Relayable(payload) ==
    /\ payload.op = OP_DISPATCH
    /\ payload.t = "MESSAGE_CREATE"
    /\ ~payload.d.author.bot
    /\ payload.d.content.len > 0

BackoffAttempts == 13

\* min(5000 ms x k, 60000 ms)
BackoffDelay(k) == IF 5000 * k < 60000 THEN 5000 * k ELSE 60000

Transports == {k \in 1..Len(gw.socks) : gw.socks[k] \in {"connecting", "open"}}

\* C28: at every moment at most one socket to the gateway is open or being
\* opened.
C28_OneTransport == Cardinality(Transports) <= 1

\* INVALID_SESSION has been handled, its timer has run reconnect(), the close
\* event of the socket has scheduled a reconnect and that timer has fired too
C28_Witness ==
    /\ gwGhost.dropped # <<>>
    /\ gw.socks[1] = "closed"
    /\ gw.reconnectAttempts = 1
    /\ gw.timers = <<>>
    /\ Cardinality(Transports) = 0

\* C29: a POST /relay whose Authorization header is missing or is not exactly
\* `Bearer <shared secret>` is answered 401; nothing is forwarded to a session
\* instance, nothing is written to a visitor socket, and no session object,
\* stored record, binding or registry entry changes.
C29_Unauthorized ==
    [][\A req \in AuthPushes :
          (req.header # "Bearer s3cret" /\ handleRelayMessage(req)) =>
              /\ relayLog' = Append(relayLog, [req |-> req, status |-> 401, active |-> {}])
              /\ UNCHANGED <<fwd, wsOut, wsState, heap, sessions, storSession, storThread,
                             rateLimits, recorded, registered, posted, threads>>]_vars

\* a visitor is connected on a thread; a push for that thread with a header one
\* character short was answered 401, one with the right header 200
C29_Witness ==
    /\ ActiveOn(Channel) = {1}
    /\ Len(relayLog) = 2
    /\ relayLog[1].req.header = "Bearer s3cre" /\ relayLog[1].status = 401
    /\ relayLog[1].req.threadId = Channel
    /\ relayLog[2].req.header = "Bearer s3cret" /\ relayLog[2].status = 200
    /\ HasReadyEnv(1, init[1].resultSid)
    /\ Len(wsOut[1]) = 1

\* the body has all four fields
Complete(req) ==
    /\ req.threadId # NoThread
    /\ req.message.len > 0
    /\ req.author # <<>>
    /\ req.timestamp # NoTimestamp

\* C30: an authenticated push that lacks threadId, message, author or timestamp
\* is answered 400, an authenticated push with all four 200.
C30_MissingField ==
    \A i \in 1..Len(relayLog) :
        relayLog[i].req.auth =>
            relayLog[i].status = IF Complete(relayLog[i].req) THEN 200 ELSE 400

\* `ready` has been sent on socket w
ReadySent(w) == \E k \in 1..Len(wsOut[w]) : wsOut[w][k].type = "ready"

\* C31: a `message` received on a socket on which no `ready` envelope has been
\* sent is answered with an error envelope; nothing is handed to
\* discord.sendMessage, no history changes and the socket stays open.
C31_NotInitialized ==
    [][\A message \in SubmitTexts :
          (handleUserMessage(1, message) /\ ~ReadySent(1)) =>
              /\ LastIsError(1)
              /\ UNCHANGED <<sends, heap, storSession, posted, recorded, accepted, wsState>>]_vars

\* C32: when discord.sendMessage fails for a submitted message, the visitor
\* is sent an error envelope (on a socket that is still open), the session's
\* history and messageCount are as before, attached and stored, the socket
\* stays as it was, nothing is posted and the call is not kept for a retry.
C32_SendFailure ==
    [][\A i \in 1..Len(sends) :
          sendDone(i, FALSE) =>
              /\ wsState[sends[i].ws] = "open" => LastIsError(sends[i].ws)
              /\ UNCHANGED <<heap, storSession, posted, recorded, wsState, sessions>>
              /\ sends' = RemoveAt(sends, i)]_vars

C32_Witness ==
    /\ wsState[1] = "open"
    /\ HasErrorEnv(1, "Failed to send message. Please try again.")
    /\ ReadySent(1)
    /\ MapHas(sessions[wsDO[1]], 1)
    /\ AttachedSession(1).messageCount = 0
    /\ AttachedSession(1).messageHistory = <<>>
    /\ storSession[wsDO[1]][AttachedSession(1).sessionId].messageCount = 0
    /\ sends = <<>>
    /\ \A k \in 1..Len(posted) : posted[k].kind # "visitor"

\* the sessions created less than ms milliseconds ago
CreatedWithin(ms) ==
    {sid \in IssuedSids :
        \E d \in DOs : Has(storSession[d], sid) /\ now - storSession[d][sid].createdAt < ms}

\* C33: no more than 3 sessions are created from one client address within
\* one hour.
C33_SessionsPerAddress == Cardinality(CreatedWithin(60 * 60 * 1000)) <= 3

\* C34: a handshake that names a stored session whose lastActivity is, when
\* the session is looked up, a full hour or more in the past is not
\* re-attached to it: it ends with a new session under another id.
C34_StrictWindow ==
    \A w \in WS :
        (/\ init[w].pc = "idle"
         /\ init[w].result \in {"created", "restored"}
         /\ init[w].data.sessionId # NoSid
         /\ init[w].stored
         /\ init[w].age >= 60 * 60 * 1000) =>
            /\ init[w].result = "created"
            /\ init[w].resultSid # init[w].data.sessionId

\* C35: once a handshake has ended with an error envelope and ws.close(), the
\* storage of no instance holds a record of the session the handshake was
\* creating, and the coordinator's registry holds no entry that names the
\* handshake's instance.
C35_FailedLeavesNothing ==
    \A w \in WS :
        (init[w].pc = "idle" /\ init[w].result = "error") =>
            /\ \A d \in DOs : init[w].sessionId = NoSid \/ ~Has(storSession[d], init[w].sessionId)
            /\ \A threadId \in DOMAIN storThread[MessageCoordinator] :
                  storThread[MessageCoordinator][threadId] # wsDO[w]

\* how many entries of a history carry the text
RECURSIVE CountText(_, _)
CountText(history, text) ==
    IF history = <<>> THEN 0
    ELSE (IF Head(history).message = text THEN 1 ELSE 0) + CountText(Tail(history), text)

\* C36: what a visitor submitted and the session posted to the thread is never
\* pushed back by the gateway: no relay push carries the text, no socket gets
\* it as a `message` envelope, and a history holds it once per post.
C36_NoEcho ==
    /\ \A i \in 1..Len(gwRelay) : gwRelay[i].message # VisitorText
    /\ \A i \in 1..Len(relayLog) : relayLog[i].req.message # VisitorText
    /\ \A w \in WS : \A k \in 1..Len(wsOut[w]) :
          wsOut[w][k].type = "message" => wsOut[w][k].data.message # VisitorText
    /\ \A d \in DOs : \A sid \in DOMAIN storSession[d] :
          CountText(storSession[d][sid].messageHistory, VisitorText)
             <= Cardinality({k \in 1..Len(posted) : posted[k].message = VisitorText})

\* the visitor's message is posted and recorded, and the gateway has handled
\* the event of it, which was the second dispatch of the session
C36_Witness ==
    /\ \E k \in 1..Len(posted) : posted[k].kind = "visitor" /\ posted[k].message = VisitorText
    /\ gw.sequenceNumber = 2
    /\ gwRelay = <<>>
    /\ relayLog = <<>>
    /\ CountText(AttachedSession(1).messageHistory, VisitorText) = 1

\* C37: sessions of different e-mail addresses are never bound to the same
\* thread, and the thread of a session is one that was created for the
\* session's own address.
C37_ThreadIsolation ==
    \A d \in DOs : \A sid \in DOMAIN storSession[d] :
        LET session == storSession[d][sid] IN
        /\ \A i \in 1..Len(threads) :
              threads[i].id = session.threadId => ThreadOf(threads[i], session.email)
        /\ \A e \in DOs : \A other \in DOMAIN storSession[e] :
              storSession[e][other].email # session.email =>
                  storSession[e][other].threadId # session.threadId

\* C38: from the moment `ready` has been sent on an open socket, the session
\* bound to the socket keeps its session id and its thread id for as long as
\* the socket is bound.
C38_BindingStable ==
    [][\A w \in WS :
          (/\ wsDO[w] \in DOs
           /\ wsState[w] = "open"
           /\ ReadySent(w)
           /\ MapHas(sessions[wsDO[w]], w)
           /\ MapHas(sessions'[wsDO[w]], w)) =>
              /\ AttachedSession(w)'.sessionId = AttachedSession(w).sessionId
              /\ AttachedSession(w)'.threadId = AttachedSession(w).threadId]_vars

\* C39: at most one setTimeout callback that will call reconnect() is pending.
C39_OneReconnectTimer == Len(gw.timers) <= 1

\* C40: on every socket a `ready` envelope comes before every `message`
\* envelope, and a visitor message is handed to discord.sendMessage only from a
\* socket on which `ready` has been sent.
C40_ReadyFirst ==
    /\ \A w \in WS : \A k \in 1..Len(wsOut[w]) :
          wsOut[w][k].type = "message" =>
              \E j \in 1..(k - 1) : wsOut[w][j].type = "ready"
    /\ \A i \in 1..Len(sends) : ReadySent(sends[i].ws)

====
